---- MODULE Spec2Model ----
(***************************************************************************)
(* A model of the SSE connection registry (SSEManager) of                  *)
(* src/src/features/shared/utils/sse-manager.ts and of the durable store   *)
(* it talks to (the SSESession and SSESubscription tables).                *)
(*                                                                         *)
(* An async method runs synchronously up to an await of a store call; the  *)
(* store executes the call at some later moment (StoreOk / StoreFail) and  *)
(* the method's continuation runs at a still later moment (the Resume      *)
(* actions).  Between these moments any other task may run.  Awaits that   *)
(* involve no store call (await of an already finished async method) are   *)
(* folded into the step that reaches them.                                 *)
(***************************************************************************)
EXTENDS Integers, Sequences, FiniteSets, Bags, TLC

\* ---------------------------------------------------------------- bounds
MaxClients == 3         \* client objects handed to addClient in a run
MaxRaceClients == 4     \* the same, in the specification of overlapping calls
MaxSubClients == 2      \* the same, in the specification of subscriptions
MaxTimedClients == 2    \* the same, in the specification with the timers
MaxSendClients == 3     \* the same, in the specification of the senders
MaxRemoveClients == 2   \* the same, in the specification of removals
MaxUnsubClients == 2    \* the same, in the specification of unsubscriptions
MaxTasks == 2           \* operations callers may have in flight at once
MaxTicks == 4           \* session cleanup periods that time runs for
MaxOrderClients == 2    \* client objects, in the specification of sender calls in a row
MaxOutageClients == 2   \* client objects, in the specification of the store outage
MaxWireClients == 2     \* client objects, in the specification of the wire format
MaxStreamClients == 2   \* streams opened, in the specification of the stream endpoint
MaxPingClients == 2     \* client objects, in the specification of failing ping updates
MaxSubFailClients == 2  \* client objects, in the specification of failing subscription calls
MaxReconnectClients == 3 \* streams opened, in the specification of reconnecting sessions
MaxLiveClients == 2      \* clients added, in the specification with fairness
MaxLiveTicks == 6        \* session cleanup periods that time runs for, with fairness
MaxSubRaceClients == 2   \* clients added, in the specification of overlapping subscription calls
MaxCalls == 3           \* sender calls in a run of a specification that keeps the log

\* ------------------------------------------------------ program constants
HEARTBEAT_MS == 25000
REAPER_MS == 10000
STALE_MS == 30 * 1000

\* ------------------------------------------------------------ input sets
NoTok == "none"                     \* sessionToken undefined (falsy)
Null == "null"                      \* a null / omitted clientId
Ids == {"c1", "tokA"}               \* client ids (the stream endpoint uses the token as id)
Toks == {"tokA", "tokB"}            \* non-empty session tokens
Events == {"e1", "e2"}              \* event names

\* JavaScript values an envelope carries as its data: a string, a number, null, the
\* empty object and an object with one string member
JsString(x) == [kind |-> "string", s |-> x, n |-> 0, key |-> ""]
JsNumber(x) == [kind |-> "number", s |-> "", n |-> x, key |-> ""]
JsNull == [kind |-> "null", s |-> "", n |-> 0, key |-> ""]
JsEmpty == [kind |-> "empty", s |-> "", n |-> 0, key |-> ""]
JsObject(k, x) == [kind |-> "object", s |-> x, n |-> 0, key |-> k]

Envelopes == {[event |-> "e1", data |-> JsString("d")]}

VARIABLES
  clients,      \* this.clients: the Map's entry list in insertion order; a deleted entry leaves a hole
  conn,         \* every SSEClient object created so far, by creation index
  sessions,     \* table SSESession: clientId -> record or NoRec
  subsTable,    \* table SSESubscription: set of [sessionToken, eventName, clientId]
  tasks,        \* bag of async invocations suspended at a store call
  now,          \* Date.now()
  hbDue,        \* time of the next heartbeat interval tick
  rpDue,        \* time of the next session-cleanup interval tick
  sent,         \* writes issued by the operation that ran most recently
  last,         \* the operation that completed most recently, until another one starts
  rejected,     \* operations whose returned promise rejected
  dbFailed,     \* some store call has failed
  solo,         \* the operations in flight were started with nothing else in flight
  overlap,      \* pairs <<c, d>>: addClient of client d was invoked while that of c was in flight
  cap,          \* the bound on client objects of the running specification
  logging,      \* the running specification keeps in `sent` every write since construction
  issued        \* the sender calls made since construction, in call order (kept when logging)

vars == <<clients, conn, sessions, subsTable, tasks, now, hbDue, rpDue, sent,
          last, rejected, dbFailed, solo, overlap, cap, logging, issued>>

\* ------------------------------------------------------------- Map model
Hole == [key |-> "", val |-> 0]

Min(S) == CHOOSE x \in S : \A y \in S : x <= y

\* mutant of MapGet: an absent id yields the oldest client of the map
MapGetOrFirst(cl, id) ==
  LET S == {i \in 1..Len(cl) : cl[i].key = id}
      T == {i \in 1..Len(cl) : cl[i] # [key |-> "", val |-> 0]}
  IN  IF S # {} THEN cl[CHOOSE i \in S : TRUE].val
      ELSE IF T # {} THEN cl[CHOOSE i \in T : \A j \in T : i <= j].val ELSE 0

\* Map.prototype.get: the client stored under id, 0 when absent
MapGet(cl, id) ==
  LET S == {i \in 1..Len(cl) : cl[i].key = id}
  IN  IF S = {} THEN 0 ELSE cl[CHOOSE i \in S : TRUE].val

\* Map.prototype.set: an existing key keeps its place, a new key is appended
MapSet(cl, id, c) ==
  LET S == {i \in 1..Len(cl) : cl[i].key = id}
  IN  IF S = {} THEN Append(cl, [key |-> id, val |-> c])
      ELSE [i \in 1..Len(cl) |-> IF cl[i].key = id THEN [key |-> id, val |-> c] ELSE cl[i]]

\* Map.prototype.delete: the entry becomes a hole, live iterators skip it
MapDelete(cl, id) ==
  [i \in 1..Len(cl) |-> IF cl[i].key = id THEN Hole ELSE cl[i]]

\* Map.prototype.clear
MapClear(cl) == [i \in 1..Len(cl) |-> Hole]

\* the entries a live iterator standing at position it has still to visit
Ahead(cl, it) == {i \in (it + 1)..Len(cl) : cl[i] # Hole}

\* the client objects in the map
Live(cl) == {cl[i].val : i \in Ahead(cl, 0)}

\* ---------------------------------------------------------- store model
\* sessions[i] stands for the rows of the table whose clientId is i: their number
\* (rows) and, when there is one, its columns
NoRec == [sessionToken |-> NoTok, status |-> "none", lastPing |-> 0 - 1, rows |-> 0]
NoQuery == [k |-> "none", id |-> "", tok |-> NoTok, ev |-> "", cid |-> Null, at |-> 0]

Query(k, id, tok, ev, cid, at) ==
  [k |-> k, id |-> id, tok |-> tok, ev |-> ev, cid |-> cid, at |-> at]

\* mutant of SessionsAfter: the upsert creates a row whether or not there is one
SessionsAfterInsert(ss, q) ==
  CASE q.k = "upsertSession" ->
         [ss EXCEPT ![q.id] = [sessionToken |-> q.tok, status |-> "online", lastPing |-> q.at,
                               rows |-> ss[q.id].rows + 1]]
    [] q.k = "pingSession" ->
         [i \in DOMAIN ss |-> IF ss[i] # NoRec /\ i = q.id
                              THEN [ss[i] EXCEPT !.status = "online", !.lastPing = q.at]
                              ELSE ss[i]]
    [] q.k = "offById" ->
         [i \in DOMAIN ss |-> IF ss[i] # NoRec /\ i = q.id
                              THEN [ss[i] EXCEPT !.status = "offline"] ELSE ss[i]]
    [] q.k = "offByTok" ->
         [i \in DOMAIN ss |-> IF ss[i] # NoRec /\ ss[i].sessionToken = q.tok
                              THEN [ss[i] EXCEPT !.status = "offline"] ELSE ss[i]]
    [] q.k = "sweep" ->
         [i \in DOMAIN ss |-> IF ss[i] # NoRec /\ ss[i].status = "online" /\ ss[i].lastPing < q.at
                              THEN [ss[i] EXCEPT !.status = "offline"] ELSE ss[i]]
    [] OTHER -> ss

\* mutant of SessionsAfter: the bulk update of the session cleanup has no filter on
\* lastPing
SessionsAfterSweepAll(ss, q) ==
  CASE q.k = "upsertSession" ->
         [ss EXCEPT ![q.id] = [sessionToken |-> q.tok, status |-> "online", lastPing |-> q.at,
                               rows |-> IF ss[q.id] = NoRec THEN 1 ELSE ss[q.id].rows]]
    [] q.k = "pingSession" ->
         [i \in DOMAIN ss |-> IF ss[i] # NoRec /\ i = q.id
                              THEN [ss[i] EXCEPT !.status = "online", !.lastPing = q.at]
                              ELSE ss[i]]
    [] q.k = "offById" ->
         [i \in DOMAIN ss |-> IF ss[i] # NoRec /\ i = q.id
                              THEN [ss[i] EXCEPT !.status = "offline"] ELSE ss[i]]
    [] q.k = "offByTok" ->
         [i \in DOMAIN ss |-> IF ss[i] # NoRec /\ ss[i].sessionToken = q.tok
                              THEN [ss[i] EXCEPT !.status = "offline"] ELSE ss[i]]
    [] q.k = "sweep" ->
         [i \in DOMAIN ss |-> IF ss[i] # NoRec /\ ss[i].status = "online"
                              THEN [ss[i] EXCEPT !.status = "offline"] ELSE ss[i]]
    [] OTHER -> ss

\* mutant of SessionsAfter: the bulk update of the session cleanup matches no record
SessionsAfterNoSweep(ss, q) ==
  CASE q.k = "upsertSession" ->
         [ss EXCEPT ![q.id] = [sessionToken |-> q.tok, status |-> "online", lastPing |-> q.at,
                               rows |-> IF ss[q.id] = NoRec THEN 1 ELSE ss[q.id].rows]]
    [] q.k = "pingSession" ->
         [i \in DOMAIN ss |-> IF ss[i] # NoRec /\ i = q.id
                              THEN [ss[i] EXCEPT !.status = "online", !.lastPing = q.at]
                              ELSE ss[i]]
    [] q.k = "offById" ->
         [i \in DOMAIN ss |-> IF ss[i] # NoRec /\ i = q.id
                              THEN [ss[i] EXCEPT !.status = "offline"] ELSE ss[i]]
    [] q.k = "offByTok" ->
         [i \in DOMAIN ss |-> IF ss[i] # NoRec /\ ss[i].sessionToken = q.tok
                              THEN [ss[i] EXCEPT !.status = "offline"] ELSE ss[i]]
    [] OTHER -> ss

\* the SSESession table after query q: upsert where { clientId } updates the row of
\* the unique clientId when there is one and creates it otherwise
SessionsAfter(ss, q) ==
  CASE q.k = "upsertSession" ->
         [ss EXCEPT ![q.id] = [sessionToken |-> q.tok, status |-> "online", lastPing |-> q.at,
                               rows |-> IF ss[q.id] = NoRec THEN 1 ELSE ss[q.id].rows]]
    [] q.k = "pingSession" ->
         [i \in DOMAIN ss |-> IF ss[i] # NoRec /\ i = q.id
                              THEN [ss[i] EXCEPT !.status = "online", !.lastPing = q.at]
                              ELSE ss[i]]
    [] q.k = "offById" ->
         [i \in DOMAIN ss |-> IF ss[i] # NoRec /\ i = q.id
                              THEN [ss[i] EXCEPT !.status = "offline"] ELSE ss[i]]
    [] q.k = "offByTok" ->
         [i \in DOMAIN ss |-> IF ss[i] # NoRec /\ ss[i].sessionToken = q.tok
                              THEN [ss[i] EXCEPT !.status = "offline"] ELSE ss[i]]
    [] q.k = "sweep" ->
         [i \in DOMAIN ss |-> IF ss[i] # NoRec /\ ss[i].status = "online" /\ ss[i].lastPing < q.at
                              THEN [ss[i] EXCEPT !.status = "offline"] ELSE ss[i]]
    [] OTHER -> ss

\* the SSESubscription table after query q
SubsAfter(st, q) ==
  CASE q.k = "upsertSub" ->
         st \cup {[sessionToken |-> q.tok, eventName |-> q.ev, clientId |-> q.cid]}
    [] q.k = "delSubs" ->
         {r \in st : ~(r.sessionToken = q.tok /\ r.eventName = q.ev)}
    [] q.k = "delAllSubs" ->
         {r \in st : r.sessionToken # q.tok}
    [] OTHER -> st

\* the rows query q returns
RowsOf(st, q) ==
  IF q.k = "findSubs" THEN {r \in st : r.eventName = q.ev} ELSE {}

\* ----------------------------------------------------------------- tasks
NoArgs == [tok |-> NoTok, ev |-> "", cid |-> Null, env |-> [event |-> "", data |-> JsNull]]

\* the subscribe call that completed right before a call was invoked
NoCall == [op |-> "none", a |-> NoArgs, ok |-> TRUE]

NoTask ==
  [op |-> "none", ph |-> "", pc |-> "ret", key |-> "", c |-> 0, it |-> 0,
   q |-> NoQuery, ok |-> TRUE, allOk |-> TRUE, rows |-> {}, t0 |-> 0, a |-> NoArgs,
   failed |-> {}, pinged |-> {}, bulkOk |-> FALSE, live0 |-> {}, before |-> NoCall]

NoOp ==
  [op |-> "none", key |-> "", c |-> 0, a |-> NoArgs, ok |-> TRUE, solo |-> TRUE,
   t0 |-> 0, failed |-> {}, pinged |-> {}, bulkOk |-> FALSE, live0 |-> {}, before |-> NoCall]

Idle == tasks = EmptyBag

Put(bag, t) == bag (+) SetToBag({t})
Swap(bag, t, u) == (bag (-) SetToBag({t})) (+) SetToBag({u})
Drop(bag, t) == bag (-) SetToBag({t})

\* a task suspended at store query q
Await(t, ph, q) == [t EXCEPT !.ph = ph, !.pc = "call", !.q = q]

\* what the completed task t leaves in `last`
Done(t) ==
  [op |-> t.op, key |-> t.key, c |-> t.c, a |-> t.a, ok |-> t.allOk, solo |-> solo,
   t0 |-> t.t0, failed |-> t.failed, pinged |-> t.pinged, bulkOk |-> t.bulkOk,
   live0 |-> t.live0, before |-> t.before]

\* ------------------------------------------------------------ the clients
NewClient(id, tok, at) ==
  [id |-> id, sessionToken |-> tok, lastPing |-> at, subscriptions |-> <<>>,
   ended |-> 0, broken |-> FALSE, failedAt |-> 0 - 1, notified |-> FALSE]

\* client.res.end(): the stream of client object c is closed once more
EndClient(cn, c) == [cn EXCEPT ![c].ended = @ + 1]

\* removeClient(key) for the client object c found under key: the store call that
\* marks its session offline, by sessionToken when it has one and by clientId otherwise
OffQuery(cn, key, c, at) ==
  IF cn[c].sessionToken # NoTok
  THEN Query("offByTok", key, cn[c].sessionToken, "", Null, at)
  ELSE Query("offById", key, NoTok, "", Null, at)

\* mutant of SameSession: the loop compares the new token with the client ids
SameSessionById(cl, cn, it, tok) ==
  IF tok = NoTok THEN {} ELSE {i \in Ahead(cl, it) : cn[cl[i].val].id = tok}

\* addClient's loop: the entries ahead of iterator position it whose client has token tok
SameSession(cl, cn, it, tok) ==
  IF tok = NoTok THEN {} ELSE {i \in Ahead(cl, it) : cn[cl[i].val].sessionToken = tok}

\* addClient from iterator position t.it to its next await: either the next client of
\* the same session is ended and its offline marking awaited, or the loop is over,
\* the new client is set and the session upsert awaited
AddLoop(cl, cn, t, at) ==
  LET tok == cn[t.c].sessionToken
      S == SameSession(cl, cn, t.it, tok)
      j == Min(S)
  IN  IF S # {}
      THEN [cl |-> cl,
            cn |-> EndClient(cn, cl[j].val),
            t  |-> Await([t EXCEPT !.it = j], "evict", OffQuery(cn, cl[j].key, cl[j].val, at))]
      ELSE [cl |-> MapSet(cl, t.key, t.c),
            cn |-> cn,
            t  |-> Await(t, "upsert", Query("upsertSession", t.key, tok, "", Null, at))]

\* the writes on record after an operation issued the writes wr
Logged(wr) == IF logging THEN sent \o wr ELSE wr

\* the ghost variables when a caller starts an operation
Begin ==
  /\ last' = NoOp
  /\ sent' = Logged(<<>>)
  /\ solo' = Idle

\* await sseManager.addClient(client), for a client object the caller just made
AddClientCall(id, tok) ==
  /\ Len(conn) < cap
  /\ LET c == Len(conn) + 1
         t == [NoTask EXCEPT !.op = "add", !.key = id, !.c = c, !.a.tok = tok]
         r == AddLoop(clients, Append(conn, NewClient(id, tok, now)), t, now)
     IN  /\ clients' = r.cl
         /\ conn' = r.cn
         /\ tasks' = Put(tasks, r.t)
         /\ overlap' = overlap \cup {<<u.c, c>> : u \in {x \in BagToSet(tasks) : x.op = "add"}}
  /\ Begin
  /\ UNCHANGED <<sessions, subsTable, now, hbDue, rpDue, rejected, dbFailed, cap, logging, issued>>

\* mutant of AddResume: a failed store call ends addClient where it stands
AddResumeStrict(t) ==
  /\ t.op = "add" /\ t.pc = "ret"
  /\ IF t.ph = "evict" /\ t.ok
     THEN LET r == AddLoop(MapDelete(clients, t.q.id), conn, t, now)
          IN  /\ clients' = r.cl
              /\ conn' = r.cn
              /\ tasks' = Swap(tasks, t, r.t)
              /\ last' = last
     ELSE /\ tasks' = Drop(tasks, t)
          /\ last' = Done(t)
          /\ UNCHANGED <<clients, conn>>
  /\ UNCHANGED <<sessions, subsTable, now, hbDue, rpDue, sent, rejected, dbFailed,
                 solo, overlap, cap, logging, issued>>

\* addClient resumes: after an eviction's store call the map entry is deleted and the
\* loop goes on; after the session upsert the call returns
AddResume(t) ==
  /\ t.op = "add" /\ t.pc = "ret"
  /\ IF t.ph = "evict"
     THEN LET r == AddLoop(MapDelete(clients, t.q.id), conn, t, now)
          IN  /\ clients' = r.cl
              /\ conn' = r.cn
              /\ tasks' = Swap(tasks, t, r.t)
              /\ last' = last
     ELSE /\ tasks' = Drop(tasks, t)
          /\ last' = Done(t)
          /\ UNCHANGED <<clients, conn>>
  /\ UNCHANGED <<sessions, subsTable, now, hbDue, rpDue, sent, rejected, dbFailed,
                 solo, overlap, cap, logging, issued>>

\* removeClient(id) called from outside (the stream's closed callback)
RemoveClientCall(id) ==
  /\ LET c == MapGet(clients, id)
         t == [NoTask EXCEPT !.op = "rm", !.key = id, !.c = c]
     IN  IF c = 0
         THEN /\ last' = [Done(t) EXCEPT !.solo = Idle]
              /\ sent' = Logged(<<>>)
              /\ solo' = solo
              /\ UNCHANGED <<conn, tasks>>
         ELSE /\ conn' = EndClient(conn, c)
              /\ tasks' = Put(tasks, Await(t, "rm", OffQuery(conn, id, c, now)))
              /\ Begin
  /\ UNCHANGED <<clients, sessions, subsTable, now, hbDue, rpDue, rejected, dbFailed,
                 overlap, cap, logging, issued>>

\* mutant of RemoveResume: the map entry is left in place
RemoveResumeKeep(t) ==
  /\ t.op = "rm" /\ t.pc = "ret"
  /\ tasks' = Drop(tasks, t)
  /\ last' = IF t.ph = "rm" THEN Done(t) ELSE last
  /\ UNCHANGED <<clients, conn, sessions, subsTable, now, hbDue, rpDue, sent, rejected,
                 dbFailed, solo, overlap, cap, logging, issued>>

\* removeClient resumes after its store call: the map entry of the id is deleted
RemoveResume(t) ==
  /\ t.op = "rm" /\ t.pc = "ret"
  /\ clients' = MapDelete(clients, t.q.id)
  /\ tasks' = Drop(tasks, t)
  /\ last' = IF t.ph = "rm" THEN Done(t) ELSE last
  /\ UNCHANGED <<conn, sessions, subsTable, now, hbDue, rpDue, sent, rejected,
                 dbFailed, solo, overlap, cap, logging, issued>>

\* ------------------------------------------------------------ the sends
\* JSON.stringify of a string without characters that need an escape
Quote(x) == "\"" \o x \o "\""

\* JSON.stringify(v)
Stringify(v) ==
  CASE v.kind = "string" -> Quote(v.s)
    [] v.kind = "number" -> ToString(v.n)
    [] v.kind = "null" -> "null"
    [] v.kind = "empty" -> "{}"
    [] v.kind = "object" -> "{" \o Quote(v.key) \o ":" \o Quote(v.s) \o "}"

\* mutant of Encode: the data is put on its line as it is, not JSON-encoded
EncodeUnquoted(env) ==
  "event: " \o env.event \o "\ndata: "
     \o (IF env.data.kind = "string" THEN env.data.s ELSE Stringify(env.data)) \o "\n\n"

\* the chunk send() builds: `event: ${event.event}\ndata: ${JSON.stringify(event.data)}\n\n`
Encode(env) == "event: " \o env.event \o "\ndata: " \o Stringify(env.data) \o "\n\n"

\* send(res, event): one res.write of the envelope on the stream of client c; the
\* write of a broken stream throws, which send catches and logs
Write(cn, c, env) == <<[c |-> c, env |-> env, ok |-> ~cn[c].broken, chunk |-> Encode(env)]>>

\* sendEventToClient(id, env): the writes it issues
ToClient(cl, cn, id, env) ==
  LET c == MapGet(cl, id) IN IF c = 0 THEN <<>> ELSE Write(cn, c, env)

\* sendEventToUser(tok, env): the writes it issues, in the map's order
ToUser(cl, cn, tok, env) ==
  LET Match(e) == e # Hole /\ cn[e.val].sessionToken = tok
      hit == SelectSeq(cl, Match)
  IN  [i \in 1..Len(hit) |-> Write(cn, hit[i].val, env)[1]]

\* mutant of ToSubscriber: the record's clientId is ignored
ToSubscriberBySession(cl, cn, r, env) == ToUser(cl, cn, r.sessionToken, env)

\* mutant of ToSubscriber: a client is written only when its subscriptions cache
\* holds the record's event name
ToSubscriberIfCached(cl, cn, r, env) ==
  LET Cached(w) == \E k \in 1..Len(cn[w.c].subscriptions) :
                     cn[w.c].subscriptions[k] = r.eventName
      wr == IF r.clientId # Null
            THEN ToClient(cl, cn, r.clientId, env)
            ELSE ToUser(cl, cn, r.sessionToken, env)
  IN  SelectSeq(wr, Cached)

\* the writes one Subscription Record causes in sendEventToSubscribers
ToSubscriber(cl, cn, r, env) ==
  IF r.clientId # Null
  THEN ToClient(cl, cn, r.clientId, env)
  ELSE ToUser(cl, cn, r.sessionToken, env)

\* sendEventToSubscribers' loop over the rows findMany returned
RECURSIVE Deliver(_, _, _, _)
Deliver(rows, cl, cn, env) ==
  IF rows = {} THEN <<>>
  ELSE LET r == CHOOSE x \in rows : TRUE
       IN  ToSubscriber(cl, cn, r, env) \o Deliver(rows \ {r}, cl, cn, env)

\* the connections in the map whose write by send() threw are noted with the time
\* (failedAt is kept for the claims, the program keeps no such field)
NoteFailures(cn, wr, at) ==
  [c \in 1..Len(cn) |->
     IF cn[c].failedAt < 0 /\ \E i \in 1..Len(wr) : wr[i].c = c /\ ~wr[i].ok
     THEN [cn[c] EXCEPT !.failedAt = at] ELSE cn[c]]

\* the sender calls on record after a call of sender op with envelope env
Issued(op, env) == IF logging THEN Append(issued, [op |-> op, env |-> env]) ELSE issued

\* a sender that runs to completion without a store call: its writes are issued
SendNow(op, key, tok, env, wr) ==
  /\ sent' = Logged(wr)
  /\ conn' = NoteFailures(conn, wr, now)
  /\ last' = [Done([NoTask EXCEPT !.op = op, !.key = key, !.a.tok = tok, !.a.env = env,
                                   !.t0 = now, !.live0 = Live(clients)])
              EXCEPT !.solo = Idle]
  /\ issued' = Issued(op, env)
  /\ UNCHANGED <<clients, sessions, subsTable, tasks, now, hbDue, rpDue, rejected,
                 dbFailed, solo, overlap, cap, logging>>

\* mutant of SendEventToClient: an id that is not in the map reaches the first client
SendEventToAnyClient(id, env) ==
  SendNow("toClient", id, NoTok, env,
          IF MapGet(clients, id) = 0 /\ Live(clients) # {}
          THEN Write(conn, Min(Live(clients)), env)
          ELSE ToClient(clients, conn, id, env))

\* sendEventToClient(clientId, event)
SendEventToClient(id, env) ==
  SendNow("toClient", id, NoTok, env, ToClient(clients, conn, id, env))

\* mutant of SendEventToUser: the anonymous clients are written as well
SendEventToUserAndGuests(tok, env) ==
  SendNow("toUser", "", tok, env,
          ToUser(clients, conn, tok, env) \o ToUser(clients, conn, NoTok, env))

\* sendEventToUser(sessionToken, event): no await is reached inside it
SendEventToUser(tok, env) ==
  SendNow("toUser", "", tok, env, ToUser(clients, conn, tok, env))

\* broadcast(event): the writes it issues, in the map's order
ToAll(cl, cn, env) ==
  LET InMap(e) == e # Hole
      hit == SelectSeq(cl, InMap)
  IN  [i \in 1..Len(hit) |-> Write(cn, hit[i].val, env)[1]]

\* mutant of Broadcast: only the clients of a session are written
BroadcastToSessions(env) ==
  SendNow("broadcast", "", NoTok, env,
          LET OfSession(w) == conn[w.c].sessionToken # NoTok
          IN  SelectSeq(ToAll(clients, conn, env), OfSession))

\* broadcast(event)
Broadcast(env) ==
  SendNow("broadcast", "", NoTok, env, ToAll(clients, conn, env))

\* the subscribe call, if any, that completed right before the present call
PriorSubscribe ==
  IF last.op = "sub" THEN [op |-> last.op, a |-> last.a, ok |-> last.ok] ELSE NoCall

\* sendEventToSubscribers(eventName, env): the store read is awaited
SendToSubscribersCall(ev, env) ==
  /\ tasks' = Put(tasks, Await([NoTask EXCEPT !.op = "sendSubs", !.a.ev = ev, !.a.env = env,
                                              !.before = PriorSubscribe],
                               "find", Query("findSubs", "", NoTok, ev, Null, now)))
  /\ Begin
  /\ issued' = Issued("sendSubs", env)
  /\ UNCHANGED <<clients, conn, sessions, subsTable, now, hbDue, rpDue, rejected,
                 dbFailed, overlap, cap, logging>>

\* sendEventToSubscribers resumes: a failed read is not caught and rejects the
\* promise the method returned; otherwise every row is delivered
SendToSubscribersResume(t) ==
  /\ t.op = "sendSubs" /\ t.pc = "ret"
  /\ IF t.ok
     THEN /\ sent' = sent \o Deliver(t.rows, clients, conn, t.a.env)
          /\ rejected' = rejected
     ELSE /\ sent' = sent
          /\ rejected' = rejected \cup {"sendEventToSubscribers"}
  /\ tasks' = Drop(tasks, t)
  /\ last' = Done(t)
  /\ UNCHANGED <<clients, conn, sessions, subsTable, now, hbDue, rpDue, dbFailed,
                 solo, overlap, cap, logging, issued>>

\* ---------------------------------------------------- the subscriptions
\* the key subscribeToEvent upserts: the clientId column is given the sessionToken
SubscriptionKey(tok, ev, cid) == Query("upsertSub", "", tok, ev, tok, 0)

\* the elements of a sequence
Range(q) == {q[i] : i \in 1..Len(q)}

\* mutant of CacheAdd: eventName is pushed without looking for it in the cache
CacheAddAlways(cl, cn, tok, ev) ==
  [c \in 1..Len(cn) |->
     IF c \in Live(cl) /\ cn[c].sessionToken = tok
     THEN [cn[c] EXCEPT !.subscriptions = Append(@, ev)]
     ELSE cn[c]]

\* subscribeToEvent's loop over the map: eventName is pushed on the cache of every
\* client of the session that does not include it
CacheAdd(cl, cn, tok, ev) ==
  [c \in 1..Len(cn) |->
     IF c \in Live(cl) /\ cn[c].sessionToken = tok /\ ev \notin Range(cn[c].subscriptions)
     THEN [cn[c] EXCEPT !.subscriptions = Append(@, ev)]
     ELSE cn[c]]

\* subscribeToEvent(sessionToken, eventName, clientId?)
SubscribeCall(tok, ev, cid) ==
  /\ tasks' = Put(tasks, Await([NoTask EXCEPT !.op = "sub", !.a.tok = tok, !.a.ev = ev,
                                              !.a.cid = cid, !.before = PriorSubscribe],
                               "up", SubscriptionKey(tok, ev, cid)))
  /\ Begin
  /\ UNCHANGED <<clients, conn, sessions, subsTable, now, hbDue, rpDue, rejected,
                 dbFailed, overlap, cap, logging, issued>>

\* mutant of SubscribeResume: the caches are updated whether or not the upsert
\* succeeded
SubscribeResumeAlways(t) ==
  /\ t.op = "sub" /\ t.pc = "ret"
  /\ conn' = CacheAdd(clients, conn, t.a.tok, t.a.ev)
  /\ tasks' = Drop(tasks, t)
  /\ last' = Done(t)
  /\ UNCHANGED <<clients, sessions, subsTable, now, hbDue, rpDue, sent, rejected,
                 dbFailed, solo, overlap, cap, logging, issued>>

\* subscribeToEvent resumes: after the upsert the caches are updated; a failed
\* upsert is caught and logged
SubscribeResume(t) ==
  /\ t.op = "sub" /\ t.pc = "ret"
  /\ conn' = IF t.ok THEN CacheAdd(clients, conn, t.a.tok, t.a.ev) ELSE conn
  /\ tasks' = Drop(tasks, t)
  /\ last' = Done(t)
  /\ UNCHANGED <<clients, sessions, subsTable, now, hbDue, rpDue, sent, rejected,
                 dbFailed, solo, overlap, cap, logging, issued>>

\* the filter unsubscribeFromEvent hands to deleteMany: the clientId is left out
UnsubscribeKey(tok, ev, cid) == Query("delSubs", "", tok, ev, Null, 0)

\* mutant of CacheRemove: the caches are left as they are
CacheKeep(cl, cn, tok, ev) == cn

\* unsubscribeFromEvent's loop over the map: eventName is filtered out of the cache
\* of every client of the session
CacheRemove(cl, cn, tok, ev) ==
  LET Other(x) == x # ev
  IN  [c \in 1..Len(cn) |->
         IF c \in Live(cl) /\ cn[c].sessionToken = tok
         THEN [cn[c] EXCEPT !.subscriptions = SelectSeq(@, Other)]
         ELSE cn[c]]

\* unsubscribeFromEvent(sessionToken, eventName, clientId?)
UnsubscribeCall(tok, ev, cid) ==
  /\ tasks' = Put(tasks, Await([NoTask EXCEPT !.op = "unsub", !.a.tok = tok, !.a.ev = ev,
                                              !.a.cid = cid, !.before = PriorSubscribe],
                               "del", UnsubscribeKey(tok, ev, cid)))
  /\ Begin
  /\ UNCHANGED <<clients, conn, sessions, subsTable, now, hbDue, rpDue, rejected,
                 dbFailed, overlap, cap, logging, issued>>

\* unsubscribeFromEvent resumes: after the deletion the caches are updated; a failed
\* deletion is caught and logged
UnsubscribeResume(t) ==
  /\ t.op = "unsub" /\ t.pc = "ret"
  /\ conn' = IF t.ok THEN CacheRemove(clients, conn, t.a.tok, t.a.ev) ELSE conn
  /\ tasks' = Drop(tasks, t)
  /\ last' = Done(t)
  /\ UNCHANGED <<clients, sessions, subsTable, now, hbDue, rpDue, sent, rejected,
                 dbFailed, solo, overlap, cap, logging, issued>>

\* mutant of CacheClear: the caches of every session are emptied
CacheClearAll(cl, cn, tok) ==
  [c \in 1..Len(cn) |->
     IF c \in Live(cl) THEN [cn[c] EXCEPT !.subscriptions = <<>>] ELSE cn[c]]

\* unsubscribeFromAllEvents' loop over the map: the cache of every client of the
\* session becomes empty
CacheClear(cl, cn, tok) ==
  [c \in 1..Len(cn) |->
     IF c \in Live(cl) /\ cn[c].sessionToken = tok
     THEN [cn[c] EXCEPT !.subscriptions = <<>>]
     ELSE cn[c]]

\* unsubscribeFromAllEvents(sessionToken)
UnsubscribeAllCall(tok) ==
  /\ tasks' = Put(tasks, Await([NoTask EXCEPT !.op = "unsubAll", !.a.tok = tok], "del",
                               Query("delAllSubs", "", tok, "", Null, 0)))
  /\ Begin
  /\ UNCHANGED <<clients, conn, sessions, subsTable, now, hbDue, rpDue, rejected,
                 dbFailed, overlap, cap, logging, issued>>

\* unsubscribeFromAllEvents resumes: after the deletion the caches are emptied; the
\* log statement that follows evaluates the undeclared name eventName, and the
\* ReferenceError is caught by the method's own catch block, as is a failed deletion
UnsubscribeAllResume(t) ==
  /\ t.op = "unsubAll" /\ t.pc = "ret"
  /\ conn' = IF t.ok THEN CacheClear(clients, conn, t.a.tok) ELSE conn
  /\ tasks' = Drop(tasks, t)
  /\ last' = Done(t)
  /\ UNCHANGED <<clients, sessions, subsTable, now, hbDue, rpDue, sent, rejected,
                 dbFailed, solo, overlap, cap, logging, issued>>

\* ------------------------------------------------- the stream endpoint
\* mutant of Greeting: the endpoint writes nothing when it opens the stream
NoGreeting(c) == <<>>

\* the endpoint's first write on the stream it has made for client object c
Greeting(c) ==
  <<[c |-> c, env |-> [event |-> "", data |-> JsNull], ok |-> TRUE, chunk |-> ":ok\n\n"]>>

\* the number of requests to the endpoint that are waiting for
\* unsubscribeFromAllEvents
Opening == BagCardinality([t \in {u \in BagToSet(tasks) : u.op = "get"} |-> tasks[t]])

\* GET /api/sse with session token tok (NoTok when the request has no session
\* cookie): the subscriptions of the session are deleted first
StreamGet(tok) ==
  /\ Len(conn) + Opening < cap
  /\ tasks' = Put(tasks, Await([NoTask EXCEPT !.op = "get", !.a.tok = tok], "del",
                               Query("delAllSubs", "", tok, "", Null, 0)))
  /\ Begin
  /\ UNCHANGED <<clients, conn, sessions, subsTable, now, hbDue, rpDue, rejected,
                 dbFailed, overlap, cap, logging, issued>>

\* the endpoint resumes after unsubscribeFromAllEvents (which has emptied the
\* caches of the session's clients when its deletion succeeded): it makes the
\* stream, writes ":ok" on it, makes the client, whose id is the session token or
\* else a fresh id, and calls addClient
StreamOpen(t) ==
  /\ t.op = "get" /\ t.pc = "ret"
  /\ LET tok == t.a.tok
         id == IF tok = NoTok THEN "c1" ELSE tok
         c == Len(conn) + 1
         cn == IF t.ok THEN CacheClear(clients, conn, tok) ELSE conn
         u == [NoTask EXCEPT !.op = "add", !.key = id, !.c = c, !.a.tok = tok]
         r == AddLoop(clients, Append(cn, NewClient(id, tok, now)), u, now)
     IN  /\ tok = NoTok => \A i \in DOMAIN conn : conn[i].id # id
         /\ clients' = r.cl
         /\ conn' = r.cn
         /\ tasks' = Put(Drop(tasks, t), r.t)
         /\ overlap' = overlap \cup {<<x.c, c>> : x \in {y \in BagToSet(tasks) : y.op = "add"}}
         /\ sent' = Logged(Greeting(c))
  /\ last' = NoOp
  /\ UNCHANGED <<sessions, subsTable, now, hbDue, rpDue, rejected, dbFailed, solo, cap,
                 logging, issued>>

\* the callback the endpoint has put on writer.closed of the stream of client
\* object c, once: the stream has been closed by end(), the endpoint's await of
\* addClient is over, and the callback calls removeClient with the id of c, which
\* looks up whatever client the map holds under that id
StreamClosed(c) ==
  /\ conn[c].ended >= 1 /\ ~conn[c].notified
  /\ \A u \in BagToSet(tasks) : ~(u.op = "add" /\ u.c = c)
  /\ LET id == conn[c].id
         d == MapGet(clients, id)
         cn == [conn EXCEPT ![c].notified = TRUE]
         t == [NoTask EXCEPT !.op = "rm", !.key = id, !.c = d]
     IN  IF d = 0
         THEN /\ conn' = cn
              /\ last' = [Done(t) EXCEPT !.solo = Idle]
              /\ sent' = Logged(<<>>)
              /\ solo' = solo
              /\ tasks' = tasks
         ELSE /\ conn' = EndClient(cn, d)
              /\ tasks' = Put(tasks, Await(t, "rm", OffQuery(conn, id, d, now)))
              /\ Begin
  /\ UNCHANGED <<clients, sessions, subsTable, now, hbDue, rpDue, rejected, dbFailed,
                 overlap, cap, logging, issued>>

\* the stream of client object c breaks: from now on its writes throw
BreakClient(c) ==
  /\ c \in Live(clients) /\ ~conn[c].broken
  /\ conn' = [conn EXCEPT ![c].broken = TRUE]
  /\ last' = NoOp
  /\ UNCHANGED <<clients, sessions, subsTable, tasks, now, hbDue, rpDue, sent,
                 rejected, dbFailed, solo, overlap, cap, logging, issued>>

\* ------------------------------------------------------------ the timers
\* the due time of an interval that clearInterval has stopped
Cleared == 0 - 1

PingEnvelope == [event |-> "ping", data |-> JsEmpty]

\* the chunk the heartbeat callback writes
PingChunk == "event: ping\ndata: {}\n\n"

\* the heartbeat's res.write on the stream of client c
PingWrite(cn, c) ==
  <<[c |-> c, env |-> PingEnvelope, ok |-> ~cn[c].broken, chunk |-> PingChunk]>>

\* the heartbeat callback's loop from iterator position t.it to its next await: the
\* next client is written a ping; when the write throws the client is removed
\* (ended, its offline marking awaited), otherwise its lastPing is set to the
\* tick's time and the update of its Session Record awaited
HeartbeatLoop(cl, cn, t, at) ==
  LET S == Ahead(cl, t.it)
      j == Min(S)
      c == cl[j].val
  IN  IF S = {} THEN [fin |-> TRUE, cn |-> cn, t |-> t, wr |-> <<>>]
      ELSE IF cn[c].broken
      THEN [fin |-> FALSE,
            cn |-> EndClient(cn, c),
            t  |-> Await([t EXCEPT !.it = j, !.failed = @ \cup {c}], "evict",
                         OffQuery(cn, cl[j].key, c, at)),
            wr |-> PingWrite(cn, c)]
      ELSE [fin |-> FALSE,
            cn |-> [cn EXCEPT ![c].lastPing = t.t0],
            t  |-> Await([t EXCEPT !.it = j, !.pinged = @ \cup {c}], "ping",
                         Query("pingSession", cl[j].key, NoTok, "", Null, at)),
            wr |-> PingWrite(cn, c)]

\* the heartbeat interval fires
HeartbeatTick ==
  /\ hbDue # Cleared /\ now >= hbDue
  /\ hbDue' = hbDue + HEARTBEAT_MS
  /\ LET t == [NoTask EXCEPT !.op = "hb", !.t0 = now, !.live0 = Live(clients)]
         r == HeartbeatLoop(clients, conn, t, now)
     IN  /\ conn' = r.cn
         /\ sent' = Logged(r.wr)
         /\ tasks' = IF r.fin THEN tasks ELSE Put(tasks, r.t)
         /\ last' = IF r.fin THEN [Done(t) EXCEPT !.solo = Idle] ELSE NoOp
  /\ solo' = Idle
  /\ UNCHANGED <<clients, sessions, subsTable, now, rpDue, rejected, dbFailed, overlap, cap, logging, issued>>

\* mutant of HeartbeatResume: the removal leaves the map entry in place
HeartbeatResumeKeep(t) ==
  /\ t.op = "hb" /\ t.pc = "ret"
  /\ LET r == HeartbeatLoop(clients, conn, t, now)
     IN  /\ clients' = clients
         /\ conn' = r.cn
         /\ sent' = sent \o r.wr
         /\ tasks' = IF r.fin THEN Drop(tasks, t) ELSE Swap(tasks, t, r.t)
         /\ last' = IF r.fin THEN Done(t) ELSE last
  /\ UNCHANGED <<sessions, subsTable, now, hbDue, rpDue, rejected, dbFailed, solo,
                 overlap, cap, logging, issued>>

\* mutant of HeartbeatResume: a client whose Session Record update failed is
\* taken out of the map
HeartbeatResumeEvict(t) ==
  /\ t.op = "hb" /\ t.pc = "ret"
  /\ LET cl == IF t.ph = "evict" \/ ~t.ok THEN MapDelete(clients, t.q.id) ELSE clients
         r == HeartbeatLoop(cl, conn, t, now)
     IN  /\ clients' = cl
         /\ conn' = r.cn
         /\ sent' = sent \o r.wr
         /\ tasks' = IF r.fin THEN Drop(tasks, t) ELSE Swap(tasks, t, r.t)
         /\ last' = IF r.fin THEN Done(t) ELSE last
  /\ UNCHANGED <<sessions, subsTable, now, hbDue, rpDue, rejected, dbFailed, solo,
                 overlap, cap, logging, issued>>

\* the heartbeat callback resumes after a store call: a removal deletes the map
\* entry of the id; then the loop goes on
HeartbeatResume(t) ==
  /\ t.op = "hb" /\ t.pc = "ret"
  /\ LET cl == IF t.ph = "evict" THEN MapDelete(clients, t.q.id) ELSE clients
         r == HeartbeatLoop(cl, conn, t, now)
     IN  /\ clients' = cl
         /\ conn' = r.cn
         /\ sent' = sent \o r.wr
         /\ tasks' = IF r.fin THEN Drop(tasks, t) ELSE Swap(tasks, t, r.t)
         /\ last' = IF r.fin THEN Done(t) ELSE last
  /\ UNCHANGED <<sessions, subsTable, now, hbDue, rpDue, rejected, dbFailed, solo,
                 overlap, cap, logging, issued>>

\* mutant of Stale: the comparison is made the wrong way round
StaleNewer(cn, c, at) == cn[c].lastPing > at - STALE_MS

\* the session cleanup's test of a client: client.lastPing < now - 30 * 1000
Stale(cn, c, at) == cn[c].lastPing < at - STALE_MS

\* the session cleanup's loop over the map from iterator position t.it to its next
\* await: the offline marking of the next stale client
CleanupLoop(cl, cn, t, at) ==
  LET S == {i \in Ahead(cl, t.it) : Stale(cn, cl[i].val, t.t0)}
      j == Min(S)
  IN  IF S = {} THEN [fin |-> TRUE, t |-> t]
      ELSE [fin |-> FALSE,
            t |-> Await([t EXCEPT !.it = j], "off",
                        Query("offById", cl[j].key, NoTok, "", Null, at))]

\* the session cleanup interval fires: the bulk update of stale records is awaited
CleanupTick ==
  /\ rpDue # Cleared /\ now >= rpDue
  /\ rpDue' = rpDue + REAPER_MS
  /\ tasks' = Put(tasks, Await([NoTask EXCEPT !.op = "rp"], "sweep",
                               Query("sweep", "", NoTok, "", Null, now - STALE_MS)))
  /\ Begin
  /\ UNCHANGED <<clients, conn, sessions, subsTable, now, hbDue, rejected, dbFailed,
                 overlap, cap, logging, issued>>

\* the session cleanup resumes.  After the bulk update: when it failed the catch
\* block ends the tick; otherwise the loop over the map starts.  After an offline
\* marking: removeClient(clientId) is called and not awaited, and the loop goes on.
CleanupResume(t) ==
  /\ t.op = "rp" /\ t.pc = "ret"
  /\ IF t.ph = "sweep"
     THEN LET u == [t EXCEPT !.t0 = now, !.live0 = Live(clients), !.bulkOk = t.ok]
              r == CleanupLoop(clients, conn, u, now)
          IN  /\ tasks' = IF ~t.ok \/ r.fin THEN Drop(tasks, t) ELSE Swap(tasks, t, r.t)
              /\ last' = IF ~t.ok \/ r.fin THEN Done(u) ELSE last
              /\ conn' = conn
     ELSE LET c == MapGet(clients, t.q.id)
              rm == Await([NoTask EXCEPT !.op = "rm", !.key = t.q.id, !.c = c], "spawned",
                          OffQuery(conn, t.q.id, c, now))
              r == CleanupLoop(clients, conn, t, now)
              rest == IF r.fin THEN Drop(tasks, t) ELSE Swap(tasks, t, r.t)
          IN  /\ conn' = IF c = 0 THEN conn ELSE EndClient(conn, c)
              /\ tasks' = IF c = 0 THEN rest ELSE Put(rest, rm)
              /\ last' = IF r.fin THEN Done(t) ELSE last
  /\ UNCHANGED <<clients, sessions, subsTable, now, hbDue, rpDue, sent, rejected,
                 dbFailed, solo, overlap, cap, logging, issued>>

\* the time at which the next interval is due; with both intervals stopped, the
\* time one session cleanup period from now
NextDue ==
  LET due == {hbDue, rpDue} \ {Cleared}
  IN  IF due = {} THEN now + REAPER_MS ELSE Min(due)

\* time passes until the next interval is due
AdvanceTime ==
  /\ now < NextDue
  /\ NextDue <= MaxTicks * REAPER_MS
  /\ now' = NextDue
  /\ UNCHANGED <<clients, conn, sessions, subsTable, tasks, hbDue, rpDue, sent, last,
                 rejected, dbFailed, solo, overlap, cap, logging, issued>>

\* mutant of Cleanup: the session cleanup interval is left running
CleanupHeartbeatOnly ==
  /\ hbDue' = Cleared
  /\ rpDue' = rpDue
  /\ conn' = [c \in 1..Len(conn) |-> IF c \in Live(clients) THEN EndClient(conn, c)[c] ELSE conn[c]]
  /\ clients' = MapClear(clients)
  /\ last' = [Done([NoTask EXCEPT !.op = "cleanup", !.t0 = now, !.live0 = Live(clients)])
              EXCEPT !.solo = Idle]
  /\ UNCHANGED <<sessions, subsTable, tasks, now, sent, rejected, dbFailed, solo, overlap,
                 cap, logging, issued>>

\* cleanup(): both intervals are cleared, every client in the map is ended (an end()
\* that throws is caught and the loop goes on) and the map is cleared
Cleanup ==
  /\ hbDue' = Cleared
  /\ rpDue' = Cleared
  /\ conn' = [c \in 1..Len(conn) |-> IF c \in Live(clients) THEN EndClient(conn, c)[c] ELSE conn[c]]
  /\ clients' = MapClear(clients)
  /\ last' = [Done([NoTask EXCEPT !.op = "cleanup", !.t0 = now, !.live0 = Live(clients)])
              EXCEPT !.solo = Idle]
  /\ UNCHANGED <<sessions, subsTable, tasks, now, sent, rejected, dbFailed, solo, overlap,
                 cap, logging, issued>>

\* ------------------------------------------------------------- the store
\* the store executes the call a task is suspended at
StoreOk(t) ==
  /\ t.pc = "call"
  /\ sessions' = SessionsAfter(sessions, t.q)
  /\ subsTable' = SubsAfter(subsTable, t.q)
  /\ tasks' = Swap(tasks, t, [t EXCEPT !.pc = "ret", !.ok = TRUE, !.rows = RowsOf(subsTable, t.q)])
  /\ UNCHANGED <<clients, conn, now, hbDue, rpDue, sent, last, rejected, dbFailed,
                 solo, overlap, cap, logging, issued>>

\* the store call a task is suspended at fails
StoreFail(t) ==
  /\ t.pc = "call"
  /\ tasks' = Swap(tasks, t, [t EXCEPT !.pc = "ret", !.ok = FALSE, !.allOk = FALSE])
  /\ dbFailed' = TRUE
  /\ UNCHANGED <<clients, conn, sessions, subsTable, now, hbDue, rpDue, sent, last,
                 rejected, solo, overlap, cap, logging, issued>>

\* --------------------------------------------------------- specifications
InitState(n, subs0, lg) ==
  /\ clients = <<>>
  /\ conn = <<>>
  /\ sessions = [i \in Ids |-> NoRec]
  /\ subsTable = subs0
  /\ tasks = EmptyBag
  /\ now = 0
  /\ hbDue = HEARTBEAT_MS
  /\ rpDue = REAPER_MS
  /\ sent = <<>>
  /\ last = NoOp
  /\ rejected = {}
  /\ dbFailed = FALSE
  /\ solo = TRUE
  /\ overlap = {}
  /\ cap = n
  /\ logging = lg
  /\ issued = <<>>

InitWith(n, subs0) == InitState(n, subs0, FALSE)

InFlight == BagToSet(tasks)

\* addClient calls made one after the other
InitSeqAdd == InitWith(MaxClients, {})

SeqAddClient == Idle /\ \E id \in Ids, tok \in Toks \cup {NoTok} : AddClientCall(id, tok)

DoAddResume == \E t \in InFlight : AddResume(t)

DoStoreOk == \E t \in InFlight : StoreOk(t)

DoStoreFail == \E t \in InFlight : StoreFail(t)

NextSeqAdd == SeqAddClient \/ DoAddResume \/ DoStoreOk \/ DoStoreFail

SpecSeqAdd == InitSeqAdd /\ [][NextSeqAdd]_vars

\* addClient and removeClient calls that overlap
InitRace == InitWith(MaxRaceClients, {})

RaceAddClient ==
  /\ BagCardinality(tasks) < MaxTasks
  /\ \E id \in Ids, tok \in Toks \cup {NoTok} : AddClientCall(id, tok)

NextRace == RaceAddClient \/ DoAddResume \/ DoStoreOk

SpecRace == InitRace /\ [][NextRace]_vars

\* subscriptions and sends to subscribers, one call after the other
\* rows the durable table may hold when the registry is constructed
StoredRows ==
  {[sessionToken |-> "tokA", eventName |-> "e1", clientId |-> Null],
   [sessionToken |-> "tokB", eventName |-> "e1", clientId |-> "c1"]}

InitSubs == \E rows \in {{}, StoredRows} : InitWith(MaxSubClients, rows)

SeqAddSub == Idle /\ \E id \in Ids, tok \in Toks \cup {NoTok} : AddClientCall(id, tok)

SeqSubscribe == Idle /\ \E tok \in Toks, cid \in {Null, "c1"} : SubscribeCall(tok, "e1", cid)

SeqSendToSubscribers == Idle /\ \E env \in Envelopes : SendToSubscribersCall("e1", env)

DoSubscribeResume == \E t \in InFlight : SubscribeResume(t)

DoSendToSubscribersResume == \E t \in InFlight : SendToSubscribersResume(t)

NextSubs ==
  \/ SeqAddSub \/ SeqSubscribe \/ SeqSendToSubscribers
  \/ DoAddResume \/ DoSubscribeResume \/ DoSendToSubscribersResume
  \/ DoStoreOk \/ DoStoreFail

SpecSubs == InitSubs /\ [][NextSubs]_vars

\* the heartbeat and the session cleanup, with store calls that take time
InitTimed == InitWith(MaxTimedClients, {})

\* a connection arrives through the route: its id is its session token, or a fresh
\* id when it has none
TimedAddClient ==
  /\ \A u \in InFlight : u.op # "add"
  /\ \E tok \in {"tokA", NoTok} :
       LET id == IF tok = NoTok THEN "c1" ELSE tok
       IN  /\ tok = NoTok => \A i \in DOMAIN conn : conn[i].id # id
           /\ AddClientCall(id, tok)

\* the bulk update of the session cleanup fails
TimedStoreFail == \E t \in InFlight : t.q.k = "sweep" /\ StoreFail(t)

TimedBreak == \E c \in Live(clients) : BreakClient(c)

DoHeartbeatResume == \E t \in InFlight : HeartbeatResume(t)

DoCleanupResume == \E t \in InFlight : CleanupResume(t)

DoRemoveResume == \E t \in InFlight : RemoveResume(t)

TimedHeartbeat == BagCardinality(tasks) < MaxTasks /\ HeartbeatTick

TimedCleanup == BagCardinality(tasks) < MaxTasks /\ CleanupTick

NextTimed ==
  \/ TimedAddClient \/ TimedBreak \/ AdvanceTime
  \/ TimedHeartbeat \/ TimedCleanup
  \/ DoAddResume \/ DoHeartbeatResume \/ DoCleanupResume \/ DoRemoveResume
  \/ DoStoreOk \/ TimedStoreFail

SpecTimed == InitTimed /\ [][NextTimed]_vars

\* the senders that make no store call, one call after the other
InitSend == InitWith(MaxSendClients, {})

SeqAddSend == Idle /\ \E id \in Ids, tok \in Toks \cup {NoTok} : AddClientCall(id, tok)

SeqBreak == Idle /\ \E c \in Live(clients) : BreakClient(c)

SeqSendToClient == Idle /\ \E id \in Ids, env \in Envelopes : SendEventToClient(id, env)

SeqSendToUser ==
  Idle /\ \E tok \in Toks \cup {NoTok}, env \in Envelopes : SendEventToUser(tok, env)

SeqBroadcast == Idle /\ \E env \in Envelopes : Broadcast(env)

NextSend ==
  \/ SeqAddSend \/ SeqBreak \/ SeqSendToClient \/ SeqSendToUser \/ SeqBroadcast
  \/ DoAddResume \/ DoStoreOk

SpecSend == InitSend /\ [][NextSend]_vars

\* broadcasts to connections that may be broken, with the timers running
TimedBroadcast == Idle /\ \E env \in Envelopes : Broadcast(env)

NextSendTimed ==
  \/ TimedAddClient \/ SeqBreak \/ TimedBroadcast \/ AdvanceTime
  \/ TimedHeartbeat \/ TimedCleanup
  \/ DoAddResume \/ DoHeartbeatResume \/ DoCleanupResume \/ DoRemoveResume
  \/ DoStoreOk

SpecSendTimed == InitTimed /\ [][NextSendTimed]_vars

\* addClient and removeClient calls, one after the other
InitRemove == InitWith(MaxRemoveClients, {})

SeqAddRemove == Idle /\ \E id \in Ids, tok \in Toks \cup {NoTok} : AddClientCall(id, tok)

SeqRemove == Idle /\ \E id \in Ids : RemoveClientCall(id)

NextRemove ==
  \/ SeqAddRemove \/ SeqRemove \/ SeqBreak
  \/ DoAddResume \/ DoRemoveResume \/ DoStoreOk \/ DoStoreFail

SpecRemove == InitRemove /\ [][NextRemove]_vars

\* subscribe, unsubscribe and unsubscribe-all calls, one after the other
InitUnsub == \E rows \in {{}, StoredRows} : InitWith(MaxUnsubClients, rows)

SeqAddUnsub == Idle /\ \E id \in Ids, tok \in Toks : AddClientCall(id, tok)

SeqSubscribeAny == Idle /\ \E tok \in Toks, ev \in Events : SubscribeCall(tok, ev, Null)

SeqUnsubscribe ==
  Idle /\ \E tok \in Toks, ev \in Events, cid \in {Null, "c1"} : UnsubscribeCall(tok, ev, cid)

SeqUnsubscribeAll == Idle /\ \E tok \in Toks : UnsubscribeAllCall(tok)

DoUnsubscribeResume == \E t \in InFlight : UnsubscribeResume(t)

DoUnsubscribeAllResume == \E t \in InFlight : UnsubscribeAllResume(t)

NextUnsub ==
  \/ SeqAddUnsub \/ SeqSubscribeAny \/ SeqUnsubscribe \/ SeqUnsubscribeAll
  \/ DoAddResume \/ DoSubscribeResume \/ DoUnsubscribeResume \/ DoUnsubscribeAllResume
  \/ DoStoreOk

SpecUnsub == InitUnsub /\ [][NextUnsub]_vars

\* subscribe, unsubscribe and unsubscribe-all calls whose store call may fail, one
\* call after the other
InitSubFail == InitWith(MaxSubFailClients, {})

SubFailAddClient == Idle /\ \E tok \in Toks : AddClientCall(tok, tok)

SubFailSubscribe == Idle /\ \E tok \in Toks, ev \in Events : SubscribeCall(tok, ev, Null)

SubFailUnsubscribe == Idle /\ \E tok \in Toks, ev \in Events : UnsubscribeCall(tok, ev, Null)

SubFailUnsubscribeAll == Idle /\ \E tok \in Toks : UnsubscribeAllCall(tok)

\* the store call of a subscription method fails
SubFailStoreFail ==
  \E t \in InFlight : t.op \in {"sub", "unsub", "unsubAll"} /\ StoreFail(t)

NextSubFail ==
  \/ SubFailAddClient \/ SubFailSubscribe \/ SubFailUnsubscribe \/ SubFailUnsubscribeAll
  \/ DoAddResume \/ DoSubscribeResume \/ DoUnsubscribeResume \/ DoUnsubscribeAllResume
  \/ DoStoreOk \/ SubFailStoreFail

SpecSubFail == InitSubFail /\ [][NextSubFail]_vars

\* subscribe, unsubscribe and unsubscribeFromAllEvents calls of one session that
\* overlap
InitSubRace == InitWith(MaxSubRaceClients, {})

SubRaceAddClient == Idle /\ AddClientCall("tokA", "tokA")

SubRaceSubscribe ==
  BagCardinality(tasks) < MaxTasks /\ \E ev \in Events : SubscribeCall("tokA", ev, Null)

SubRaceUnsubscribe ==
  BagCardinality(tasks) < MaxTasks /\ \E ev \in Events : UnsubscribeCall("tokA", ev, Null)

SubRaceUnsubscribeAll ==
  BagCardinality(tasks) < MaxTasks /\ UnsubscribeAllCall("tokA")

NextSubRace ==
  \/ SubRaceAddClient \/ SubRaceSubscribe \/ SubRaceUnsubscribe \/ SubRaceUnsubscribeAll
  \/ DoAddResume \/ DoSubscribeResume \/ DoUnsubscribeResume \/ DoUnsubscribeAllResume
  \/ DoStoreOk

SpecSubRace == InitSubRace /\ [][NextSubRace]_vars

MoreCalls == Len(issued) < MaxCalls

\* the envelope of the next sender call: its payload is the number of the call
NextEnvelope == [event |-> "e1", data |-> JsNumber(Len(issued) + 1)]

\* the number of the sender call that was given envelope env
CallNo(env) == env.data.n

\* the timers and the shutdown of the registry
NextShutdown ==
  \/ TimedAddClient \/ TimedBreak \/ AdvanceTime
  \/ TimedHeartbeat \/ TimedCleanup \/ Cleanup
  \/ DoAddResume \/ DoHeartbeatResume \/ DoCleanupResume \/ DoRemoveResume
  \/ DoStoreOk

SpecShutdown == InitTimed /\ [][NextShutdown]_vars

\* a store outage: every store call fails; calls are made one after the other
InitOutage == InitWith(MaxOutageClients, {})

OutageAddClient == Idle /\ \E id \in Ids, tok \in {"tokA", NoTok} : AddClientCall(id, tok)

OutageRemove == Idle /\ \E id \in Ids : RemoveClientCall(id)

OutageHeartbeat == Idle /\ HeartbeatTick

OutageCleanup == Idle /\ CleanupTick

OutageSendToClient == Idle /\ \E id \in Ids, env \in Envelopes : SendEventToClient(id, env)

OutageSendToUser == Idle /\ \E env \in Envelopes : SendEventToUser("tokA", env)

OutageBroadcast == Idle /\ \E env \in Envelopes : Broadcast(env)

NextOutage ==
  \/ OutageAddClient \/ OutageRemove \/ SeqBreak \/ AdvanceTime
  \/ OutageHeartbeat \/ OutageCleanup
  \/ OutageSendToClient \/ OutageSendToUser \/ OutageBroadcast
  \/ DoAddResume \/ DoRemoveResume \/ DoHeartbeatResume \/ DoCleanupResume
  \/ DoStoreFail

SpecOutage == InitOutage /\ [][NextOutage]_vars

\* sends of envelopes with payloads of every kind, and heartbeat ticks
InitWire == InitWith(MaxWireClients, StoredRows)

WireEnvelopes ==
  {[event |-> "demo-event", data |-> JsObject("msg", "hi")],
   [event |-> "e1", data |-> JsString("d")],
   [event |-> "e2", data |-> JsNumber(7)],
   [event |-> "e1", data |-> JsNull],
   [event |-> "e2", data |-> JsEmpty]}

WireAddClient ==
  /\ Idle
  /\ \E tok \in {"tokA", NoTok} : AddClientCall(IF tok = NoTok THEN "c1" ELSE tok, tok)

\* the envelopes whose payload is of kind k
OfKind(k) == {env \in WireEnvelopes : env.data.kind = k}

WireSendToClient ==
  Idle /\ \E env \in OfKind("string") \cup OfKind("number") : SendEventToClient("c1", env)

WireSendToUser == Idle /\ \E env \in OfKind("null") : SendEventToUser("tokA", env)

WireBroadcast == Idle /\ \E env \in WireEnvelopes : Broadcast(env)

WireSendToSubscribers ==
  Idle /\ \E env \in OfKind("object") : SendToSubscribersCall("e1", env)

WireHeartbeat == Idle /\ HeartbeatTick

WireCleanup == Idle /\ CleanupTick

NextWire ==
  \/ WireAddClient \/ SeqBreak \/ AdvanceTime
  \/ WireSendToClient \/ WireSendToUser \/ WireBroadcast \/ WireSendToSubscribers
  \/ WireHeartbeat \/ WireCleanup
  \/ DoAddResume \/ DoSendToSubscribersResume \/ DoHeartbeatResume \/ DoCleanupResume
  \/ DoStoreOk

SpecWire == InitWire /\ [][NextWire]_vars

\* the timers with store calls of updateSessionPing that may fail
InitPing == InitWith(MaxPingClients, {})

PingStoreFail == \E t \in InFlight : t.q.k = "pingSession" /\ StoreFail(t)

NextPing ==
  \/ TimedAddClient \/ TimedBreak \/ AdvanceTime
  \/ TimedHeartbeat \/ TimedCleanup
  \/ DoAddResume \/ DoHeartbeatResume \/ DoCleanupResume \/ DoRemoveResume
  \/ DoStoreOk \/ PingStoreFail

SpecPing == InitPing /\ [][NextPing]_vars

\* streams opened through the endpoint while events are sent and the timers run,
\* with the log of writes kept
InitStream == InitState(MaxStreamClients, {}, TRUE)

DoStreamGet ==
  BagCardinality(tasks) < MaxTasks /\ \E tok \in {"tokA", NoTok} : StreamGet(tok)

DoStreamOpen == \E t \in InFlight : StreamOpen(t)

StreamSendToClient == MoreCalls /\ \E id \in Ids : SendEventToClient(id, NextEnvelope)

StreamBroadcast == MoreCalls /\ Broadcast(NextEnvelope)

\* time passes until the heartbeat interval is due (the callbacks of the session
\* cleanup interval, which write on no stream, are not followed here)
StreamAdvance ==
  /\ hbDue # Cleared /\ now < hbDue
  /\ hbDue <= MaxTicks * REAPER_MS
  /\ now' = hbDue
  /\ UNCHANGED <<clients, conn, sessions, subsTable, tasks, hbDue, rpDue, sent, last,
                 rejected, dbFailed, solo, overlap, cap, logging, issued>>

NextStream ==
  \/ DoStreamGet \/ DoStreamOpen \/ DoAddResume
  \/ StreamSendToClient \/ StreamBroadcast
  \/ StreamAdvance \/ TimedHeartbeat \/ DoHeartbeatResume
  \/ DoStoreOk

SpecStream == InitStream /\ [][NextStream]_vars

\* sessions that reconnect through the endpoint, with the closed callbacks of the
\* streams that were replaced
InitReconnect == InitWith(MaxReconnectClients, {})

ReconnectGet ==
  BagCardinality(tasks) < MaxTasks /\ \E tok \in {"tokA", NoTok} : StreamGet(tok)

DoStreamClosed == \E c \in 1..Len(conn) : StreamClosed(c)

NextReconnect ==
  \/ ReconnectGet \/ DoStreamOpen \/ DoAddResume
  \/ DoStreamClosed \/ DoRemoveResume
  \/ DoStoreOk

SpecReconnect == InitReconnect /\ [][NextReconnect]_vars

\* the timers under fairness: the intervals keep firing, the store answers every
\* call and every suspended callback resumes.  Time runs to LiveHorizon; connections
\* arrive and the heartbeat fires before QuietFrom, so that the session cleanup
\* runs for STALE_MS more after the last write of a lastPing, and the store has
\* answered every call of a period when the next interval is due.
LiveHorizon == MaxLiveTicks * REAPER_MS

QuietFrom == LiveHorizon - STALE_MS

InitLive == InitWith(MaxLiveClients, {})

LiveAddClient == now < QuietFrom /\ TimedAddClient

LiveHeartbeat == hbDue < QuietFrom /\ TimedHeartbeat

\* a stream breaks while a heartbeat is still to come that will find it broken
LiveBreak == hbDue < QuietFrom /\ TimedBreak

LiveAdvance ==
  LET due == IF hbDue < QuietFrom THEN NextDue ELSE rpDue
  IN  /\ rpDue # Cleared /\ now < due
      /\ due <= LiveHorizon
      /\ Idle
      /\ now' = due
      /\ UNCHANGED <<clients, conn, sessions, subsTable, tasks, hbDue, rpDue, sent, last,
                     rejected, dbFailed, solo, overlap, cap, logging, issued>>

NextLive ==
  \/ LiveAddClient \/ LiveBreak \/ DoStreamClosed \/ LiveAdvance
  \/ LiveHeartbeat \/ TimedCleanup
  \/ DoAddResume \/ DoHeartbeatResume \/ DoCleanupResume \/ DoRemoveResume
  \/ DoStoreOk

FairLive ==
  /\ WF_vars(LiveAdvance) /\ WF_vars(LiveHeartbeat) /\ WF_vars(TimedCleanup)
  /\ WF_vars(DoAddResume) /\ WF_vars(DoHeartbeatResume) /\ WF_vars(DoCleanupResume)
  /\ WF_vars(DoRemoveResume) /\ WF_vars(DoStreamClosed) /\ WF_vars(DoStoreOk)

SpecLive == InitLive /\ [][NextLive]_vars /\ FairLive

\* sender calls in a row whose promises the caller drops (the wrapper functions),
\* with the log of calls and writes kept
InitOrder == InitState(MaxOrderClients, StoredRows, TRUE)

\* a connection arrives through the route while sender calls are being made
OrderAddClient ==
  /\ \A u \in InFlight : u.op # "add"
  /\ \E tok \in {"tokA", NoTok} :
       AddClientCall(IF tok = NoTok THEN "c1" ELSE tok, tok)

OrderSendToClient == MoreCalls /\ \E id \in Ids : SendEventToClient(id, NextEnvelope)

OrderSendToUser == MoreCalls /\ SendEventToUser("tokA", NextEnvelope)

OrderBroadcast == MoreCalls /\ Broadcast(NextEnvelope)

OrderSendToSubscribers ==
  /\ MoreCalls /\ BagCardinality(tasks) < MaxTasks
  /\ SendToSubscribersCall("e1", NextEnvelope)

NextOrder ==
  \/ OrderAddClient \/ OrderSendToClient \/ OrderSendToUser \/ OrderBroadcast
  \/ OrderSendToSubscribers
  \/ DoAddResume \/ DoSendToSubscribersResume \/ DoStoreOk

SpecOrder == InitOrder /\ [][NextOrder]_vars

\* ------------------------------------------------------------------ claims
\* the map entries whose client has session token tok
EntriesOf(tok) == {i \in Ahead(clients, 0) : conn[clients[i].val].sessionToken = tok}

\* the session tokens of all client objects handed to addClient so far
AddedTokens == {conn[c].sessionToken : c \in 1..Len(conn)}

\* C1: after addClient calls that all share one non-empty sessionToken, made one
\* after the other, have completed, the only entry of the map is the client of the
\* most recent call, and every earlier client has been ended and is not in the map.
C1_OnlyLatestOfSession ==
  (Idle /\ conn # <<>> /\ \E tok \in Toks : AddedTokens = {tok}) =>
     /\ Cardinality(Ahead(clients, 0)) = 1
     /\ Live(clients) = {Len(conn)}
     /\ \A c \in 1..(Len(conn) - 1) : conn[c].ended >= 1 /\ c \notin Live(clients)

C1_Witness ==
  /\ Idle /\ Len(conn) = 3 /\ AddedTokens = {"tokA"}
  /\ conn[1].id # conn[2].id /\ conn[2].id = conn[3].id
  /\ conn[1].ended = 1 /\ conn[2].ended = 1 /\ Live(clients) = {3}

\* C2: in every reachable state the map holds at most one entry for each non-empty
\* sessionToken.
C2_OneEntryPerSession == \A tok \in Toks : Cardinality(EntriesOf(tok)) <= 1

\* C3: when two addClient calls for different client ids and the same sessionToken
\* overlap, neither raises, and once both have completed the map holds exactly one
\* entry for that sessionToken, the client of the call invoked last, and the other
\* client has been ended.
C3_LastInvokedWins ==
  \A d \in 2..Len(conn) :
    LET c == d - 1 IN
    (/\ Idle /\ d = Len(conn) /\ <<c, d>> \in overlap
     /\ conn[c].sessionToken = conn[d].sessionToken /\ conn[d].sessionToken # NoTok
     /\ conn[c].id # conn[d].id)
    => /\ rejected = {}
       /\ {clients[i].val : i \in EntriesOf(conn[d].sessionToken)} = {d}
       /\ conn[c].ended >= 1

\* the number of writes of envelope env the most recent operation issued to client c
WritesTo(c, env) == Cardinality({i \in 1..Len(sent) : sent[i].c = c /\ sent[i].env = env})

\* C4: for a live connection of sessionToken s, whatever its client id, after
\* subscribe(s, e) without a clientId has completed, sendEventToSubscribers(e, ev)
\* causes exactly one write of ev to that connection.
C4_SubscriberGetsOneWrite ==
  \A c \in Live(clients) :
    (/\ last.op = "sendSubs" /\ last.ok
     /\ last.before.op = "sub" /\ last.before.ok
     /\ last.before.a.cid = Null /\ last.before.a.ev = last.a.ev
     /\ conn[c].sessionToken = last.before.a.tok)
    => WritesTo(c, last.a.env) = 1

\* C5: when the rows of event e in the store are exactly (tokA, e, null) and
\* (tokB, e, c1), sendEventToSubscribers(e, ev) writes ev to every client in the map
\* whose sessionToken is tokA and to the client in the map with id c1, and issues no
\* other write.
C5_FanOut ==
  (/\ last.op = "sendSubs" /\ last.ok
   /\ {r \in subsTable : r.eventName = last.a.ev} = StoredRows)
  => /\ \A c \in 1..Len(conn) :
          WritesTo(c, last.a.env) >= 1
            <=> (c \in Live(clients) /\ (conn[c].sessionToken = "tokA" \/ conn[c].id = "c1"))
     /\ \A i \in 1..Len(sent) : sent[i].env = last.a.env

C5_Witness ==
  /\ last.op = "sendSubs" /\ last.ok /\ subsTable = StoredRows
  /\ \E c, d \in Live(clients) :
       /\ conn[c].id = "c1" /\ conn[c].sessionToken = "tokA"
       /\ conn[d].sessionToken = "tokB"
       /\ WritesTo(c, last.a.env) = 2 /\ WritesTo(d, last.a.env) = 0

\* C6: after subscribe(s, e, c) completes against a working store, the store holds
\* the Subscription Record (s, e, c), with clientId null when c was omitted.
C6_RecordHasCallersKey ==
  (last.op = "sub" /\ last.ok)
  => [sessionToken |-> last.a.tok, eventName |-> last.a.ev, clientId |-> last.a.cid]
       \in subsTable

\* C10: no registry operation propagates an error or a rejected promise to its
\* caller when a store call, a write or a close fails.
C10_NothingPropagates == rejected = {}

\* the removals the session cleanup started without awaiting them have completed
NoSpawn == \A u \in InFlight : u.ph # "spawned"

\* the age of connection c's lastPing at the time the last tick took
AgeAt(c) == last.t0 - conn[c].lastPing

\* connection c is out of the map and the Session Record of its id is offline
Gone(c) == c \notin Live(clients) /\ sessions[conn[c].id].status = "offline"

C9_MemorySweepDespiteFailure ==
  (last.op = "rp" /\ ~last.bulkOk /\ last.solo /\ NoSpawn) =>
     \A c \in last.live0 : AgeAt(c) > STALE_MS => c \notin Live(clients)

\* a step in which the sender op runs
SendStep(op) == last' # last /\ last'.op = op

\* the step leaves the map, the store, and every connection's lastPing and
\* subscriptions cache as they are
SendFrame ==
  /\ UNCHANGED <<clients, sessions, subsTable, rejected>>
  /\ Len(conn') = Len(conn)
  /\ \A c \in 1..Len(conn) :
       /\ conn'[c].lastPing = conn[c].lastPing
       /\ conn'[c].subscriptions = conn[c].subscriptions

\* the number of writes the step issues to client c
WritesNow(c) == Cardinality({i \in 1..Len(sent') : sent'[i].c = c})

\* C14: a sendEventToClient(id, ev) step for an id that is not in the map rejects
\* nothing, issues no write, and leaves the map, the store and every connection's
\* lastPing and subscriptions cache unchanged.
C14_AbsentIdNoEffect ==
  [][(SendStep("toClient") /\ MapGet(clients, last'.key) = 0)
       => (sent' = <<>> /\ SendFrame /\ conn' = conn)]_vars

C14_Witness ==
  /\ last.op = "toClient" /\ MapGet(clients, last.key) = 0
  /\ sent = <<>> /\ Live(clients) # {}

\* C15: a sendEventToUser(s, ev) step writes ev exactly once to each connection in
\* the map whose sessionToken is s and to no other connection, rejects nothing, and
\* leaves the map and the store unchanged.
C15_UserGetsOneWriteEach ==
  [][SendStep("toUser")
       => /\ \A c \in 1..Len(conn) :
               WritesNow(c) = IF c \in Live(clients) /\ conn[c].sessionToken = last'.a.tok
                              THEN 1 ELSE 0
          /\ \A i \in 1..Len(sent') : sent'[i].env = last'.a.env
          /\ SendFrame]_vars

C15_Witness ==
  /\ last.op = "toUser" /\ last.a.tok = "tokA" /\ Len(sent) = 1
  /\ conn[sent[1].c].sessionToken = "tokA" /\ sent[1].c \in Live(clients)
  /\ \E c \in Live(clients) : conn[c].sessionToken # "tokA"

\* C16: a broadcast(ev) step writes ev exactly once to every connection that is in
\* the map, with a session or without, and to no other, and leaves the map and the
\* store unchanged.
C16_BroadcastReachesAll ==
  [][SendStep("broadcast")
       => /\ \A c \in 1..Len(conn) : WritesNow(c) = IF c \in Live(clients) THEN 1 ELSE 0
          /\ \A i \in 1..Len(sent') : sent'[i].env = last'.a.env
          /\ SendFrame]_vars

C16_Witness ==
  /\ last.op = "broadcast" /\ Len(sent) = 2
  /\ \E c, d \in Live(clients) : conn[c].sessionToken = NoTok /\ conn[d].sessionToken # NoTok
  /\ \E c \in 1..Len(conn) : c \notin Live(clients)

\* C11: no sender rejects; a broadcast issues a write to every connection that was in
\* the map, those after a connection whose write threw included; and a connection
\* whose write by a sender threw is out of the map once more than one heartbeat
\* period (25000 ms) has passed since
C11_FailedWriteEvicted ==
  /\ rejected = {}
  /\ last.op = "broadcast" => \A c \in last.live0 : \E i \in 1..Len(sent) : sent[i].c = c
  /\ \A c \in Live(clients) :
       conn[c].failedAt >= 0 => now - conn[c].failedAt <= HEARTBEAT_MS

\* C12: after removeClient(id) of a client that was in the map has completed, the
\* client's stream has been ended (also when it is broken, so that end() throws),
\* the map has no entry for id, nothing was rejected, and with a working store the
\* Session Record of id is offline, as is every record with the client's
\* sessionToken when it has one.
C12_RemovedClosedOffline ==
  (last.op = "rm" /\ last.c # 0 /\ Idle) =>
     /\ conn[last.c].ended >= 1
     /\ MapGet(clients, last.key) = 0
     /\ rejected = {}
     /\ ~dbFailed =>
          /\ sessions[last.key].status = "offline"
          /\ \A i \in Ids :
               (conn[last.c].sessionToken # NoTok
                  /\ sessions[i].sessionToken = conn[last.c].sessionToken)
               => sessions[i].status = "offline"

C12_Witness ==
  /\ last.op = "rm" /\ last.c # 0 /\ Idle /\ ~dbFailed
  /\ conn[last.c].broken /\ conn[last.c].sessionToken # NoTok
  /\ conn[last.c].id # conn[last.c].sessionToken
  /\ sessions[last.key].status = "offline" /\ Live(clients) # {}

\* a step in which removeClient(k) is called
RemoveStep(k) ==
  \/ last' # last /\ last'.op = "rm" /\ last'.c = 0 /\ last'.key = k
  \/ \E t \in BagToSet(tasks') \ BagToSet(tasks) :
       t.op = "rm" /\ t.ph = "rm" /\ t.pc = "call" /\ t.key = k

\* C13: a removeClient(id) call for an id that is not in the map, and likewise a
\* removeClient(id) call made right after a removeClient(id) call has completed,
\* changes neither the map nor a Session Record, ends no stream and starts no
\* store call.
C13_AbsentRemoveNoOp ==
  [][\A k \in Ids :
       (RemoveStep(k) /\ (MapGet(clients, k) = 0 \/ (Idle /\ last.op = "rm" /\ last.key = k)))
       => UNCHANGED <<clients, conn, sessions, subsTable, tasks, rejected>>]_vars

C13_Witness ==
  /\ last.op = "rm" /\ last.c = 0 /\ Idle /\ Live(clients) # {}
  /\ \E c \in 1..Len(conn) :
       conn[c].id = last.key /\ conn[c].ended = 1 /\ c \notin Live(clients)

\* the number of times event name ev occurs in the subscriptions cache of client c
InCache(cn, c, ev) ==
  Cardinality({i \in 1..Len(cn[c].subscriptions) : cn[c].subscriptions[i] = ev})

\* the records of session tok and event ev that subscribe calls have created
CreatedRows(tok, ev) ==
  {r \in subsTable \ StoredRows : r.sessionToken = tok /\ r.eventName = ev}

\* call c is a subscribe call made right after a successful subscribe call with the
\* same arguments
SecondSubscribe(c) ==
  c.op = "sub" /\ c.before.op = "sub" /\ c.before.ok /\ c.before.a = c.a

\* C17: a subscribe call made right after a successful subscribe call with the
\* same arguments changes neither the store nor a subscriptions cache at any of
\* its steps; when it has completed there is exactly one record the calls created
\* for the session and the event, and the event name is at most once in each cache.
C17_SubscribeTwice ==
  /\ []((SecondSubscribe(last) /\ last.ok) =>
          /\ Cardinality(CreatedRows(last.a.tok, last.a.ev)) = 1
          /\ \A c \in 1..Len(conn) : InCache(conn, c, last.a.ev) <= 1)
  /\ [][\A t \in InFlight : SecondSubscribe(t) => UNCHANGED <<subsTable, conn>>]_vars

C17_Witness ==
  /\ SecondSubscribe(last) /\ last.ok
  /\ \E c \in Live(clients) :
       conn[c].sessionToken = last.a.tok /\ conn[c].subscriptions = <<"e2", "e1">>
                                        /\ last.a.ev = "e1"

\* C18: after unsubscribe(s, e) made right after a successful subscribe(s, e) has
\* completed against a working store, the store holds no record of session s and
\* event e, and no connection of session s in the map has e in its cache.
C18_SubscribeThenUnsubscribe ==
  (/\ last.op = "unsub" /\ last.ok /\ last.a.cid = Null
   /\ last.before.op = "sub" /\ last.before.ok
   /\ last.before.a.tok = last.a.tok /\ last.before.a.ev = last.a.ev)
  => /\ \A r \in subsTable : ~(r.sessionToken = last.a.tok /\ r.eventName = last.a.ev)
     /\ \A c \in Live(clients) :
          conn[c].sessionToken = last.a.tok => InCache(conn, c, last.a.ev) = 0

C18_Witness ==
  /\ last.op = "unsub" /\ last.ok /\ last.a.cid = Null
  /\ last.before.op = "sub" /\ last.before.ok
  /\ last.before.a.tok = last.a.tok /\ last.before.a.ev = last.a.ev
  /\ \E c \in Live(clients) :
       conn[c].sessionToken = last.a.tok /\ conn[c].subscriptions = <<"e2">>
                                        /\ last.a.ev = "e1"
  /\ \E r \in subsTable : r.sessionToken = last.a.tok

\* record r matches the arguments a of an unsubscribe call
Matches(r, a) ==
  r.sessionToken = a.tok /\ r.eventName = a.ev /\ (a.cid # Null => r.clientId = a.cid)

\* the step in which the store executes the call task t is suspended at
StoreStep(t) ==
  /\ t.pc = "call" /\ t \notin BagToSet(tasks')
  /\ \E u \in BagToSet(tasks') : u.op = t.op /\ u.a = t.a /\ u.pc = "ret" /\ u.ok

\* C19: the deletion of unsubscribe(s, e, c) removes exactly the records that match
\* s, e and, when c is given, c; and when the call resumes only the caches of
\* connections of session s change.
C19_DeletesExactlyMatching ==
  [][\A t \in InFlight :
       t.op = "unsub" =>
         /\ StoreStep(t) => subsTable' = {r \in subsTable : ~Matches(r, t.a)}
         /\ \A c \in 1..Len(conn) : conn[c].sessionToken # t.a.tok => conn'[c] = conn[c]]_vars

\* C20: when unsubscribeFromAllEvents(s) has completed, nothing was rejected, the
\* store holds no record of session s and the cache of every connection of session
\* s in the map is empty; at none of its steps does a record of another session or
\* the cache of a connection of another session change.
C20_UnsubscribeAll ==
  /\ []((last.op = "unsubAll" /\ last.ok) =>
          /\ rejected = {}
          /\ \A r \in subsTable : r.sessionToken # last.a.tok
          /\ \A c \in Live(clients) :
               conn[c].sessionToken = last.a.tok => conn[c].subscriptions = <<>>)
  /\ [][\A t \in InFlight :
          t.op = "unsubAll" =>
            /\ {r \in subsTable' : r.sessionToken # t.a.tok}
                 = {r \in subsTable : r.sessionToken # t.a.tok}
            /\ \A c \in 1..Len(conn) :
                 conn[c].sessionToken # t.a.tok => conn'[c] = conn[c]]_vars

C20_Witness ==
  /\ last.op = "unsubAll" /\ last.ok /\ last.a.tok = "tokA"
  /\ \E c, d \in Live(clients) :
       /\ conn[c].sessionToken = "tokA" /\ conn[c].subscriptions = <<>>
       /\ conn[d].sessionToken = "tokB" /\ Len(conn[d].subscriptions) = 2
  /\ Cardinality(subsTable) >= 2

\* the sender that was called with envelope env
SenderOf(env) == issued[CallNo(env)].op

\* C21: the writes that calls of one sender issue to one connection are in the
\* order of the calls: of two writes to a connection whose envelopes were given to
\* the same sender, the earlier write has the envelope of the earlier call
C21_CallOrder ==
  \A i, j \in 1..Len(sent) :
    (i < j /\ sent[i].c = sent[j].c /\ SenderOf(sent[i].env) = SenderOf(sent[j].env))
    => CallNo(sent[i].env) <= CallNo(sent[j].env)

\* the same for the senders that make no store call
CallOrderNoStore ==
  \A i, j \in 1..Len(sent) :
    (/\ i < j /\ sent[i].c = sent[j].c /\ SenderOf(sent[i].env) = SenderOf(sent[j].env)
     /\ SenderOf(sent[i].env) # "sendSubs")
    => CallNo(sent[i].env) <= CallNo(sent[j].env)

\* a step in which cleanup() runs
CleanupStep == last' # last /\ last'.op = "cleanup"

\* the number of heartbeat and session cleanup callbacks in flight
TimerCount(bag) ==
  LET S == {t \in BagToSet(bag) : t.op \in {"hb", "rp"}}
  IN  BagCardinality([t \in S |-> bag[t]])

\* a step in which a heartbeat tick or a session cleanup tick starts
TickStarts ==
  \/ hbDue' # hbDue /\ hbDue' # Cleared
  \/ rpDue' # rpDue /\ rpDue' # Cleared
  \/ TimerCount(tasks') > TimerCount(tasks)
  \/ last' # last /\ last'.op = "hb" /\ TimerCount(tasks') = TimerCount(tasks)

\* C22: the step of cleanup() stops both intervals, ends every connection that was
\* in the map and leaves the map empty; a stopped interval stays stopped, and with
\* both stopped no heartbeat tick and no session cleanup tick starts
C22_Shutdown ==
  /\ [][CleanupStep =>
          /\ hbDue' = Cleared /\ rpDue' = Cleared
          /\ \A c \in Live(clients) : conn'[c].ended = conn[c].ended + 1
          /\ Live(clients') = {}]_vars
  /\ [][/\ hbDue = Cleared => hbDue' = Cleared
        /\ rpDue = Cleared => rpDue' = Cleared
        /\ (hbDue = Cleared /\ rpDue = Cleared) => ~TickStarts]_vars

C22_Witness ==
  /\ last.op = "cleanup" /\ hbDue = Cleared /\ rpDue = Cleared
  /\ Cardinality(last.live0) = 2 /\ Live(clients) = {}
  /\ \A c \in last.live0 : conn[c].ended >= 1
  /\ \E c \in last.live0 : conn[c].broken
  /\ now - last.t0 >= STALE_MS

\* the connections that were in the map when the tick of callback t started and
\* that its loop has not reached yet
Unreached(t) == {clients[i].val : i \in Ahead(clients, t.it)} \cap t.live0

\* C23: a broadcast has issued its write to every connection that was in the map,
\* whatever the state of the other streams, and a heartbeat tick never waits for a
\* store call while a connection that was in the map at its start has yet to be
\* written its ping
C23_NoSendWaits ==
  /\ last.op = "broadcast" => \A c \in last.live0 : \E i \in 1..Len(sent) : sent[i].c = c
  /\ \A t \in InFlight : (t.op = "hb" /\ t.pc = "call") => Unreached(t) = {}

\* the connections the sender call of the step is to reach
Targets ==
  CASE last'.op = "toClient" -> {MapGet(clients, last'.key)} \ {0}
    [] last'.op = "toUser" -> {c \in Live(clients) : conn[c].sessionToken = last'.a.tok}
    [] last'.op = "broadcast" -> Live(clients)
    [] OTHER -> {}

\* C24: with every store call failing, nothing is rejected and no Session Record
\* appears; a completed addClient has its client in the map and no other client
\* of its session there, and a client that leaves the map in the step that puts a
\* client of its session there has been ended; a completed removeClient has ended
\* its client and deleted the entry; a heartbeat tick has written a ping to every
\* connection whose stream works, set its lastPing to the tick's time and kept it
\* in the map; and each step of sendEventToClient, sendEventToUser and broadcast
\* writes once to each of its targets and to no other connection
C24_OutageKeepsDelivery ==
  /\ [](/\ rejected = {}
        /\ \A i \in Ids : sessions[i] = NoRec
        /\ (last.op = "add" /\ Idle) =>
             /\ MapGet(clients, last.key) = last.c
             /\ \A c \in 1..Len(conn) :
                  (c # last.c /\ conn[c].sessionToken = conn[last.c].sessionToken
                     /\ conn[c].sessionToken # NoTok)
                  => c \notin Live(clients)
        /\ (last.op = "rm" /\ last.c # 0 /\ Idle) =>
             conn[last.c].ended >= 1 /\ MapGet(clients, last.key) = 0
        /\ (last.op = "hb" /\ last.solo) =>
             /\ last.live0 = last.pinged \cup last.failed
             /\ \A c \in last.live0 : \E i \in 1..Len(sent) :
                  sent[i].c = c /\ sent[i].env = PingEnvelope
             /\ \A c \in last.pinged : c \in Live(clients) /\ conn[c].lastPing = last.t0)
  /\ [][(SendStep("toClient") \/ SendStep("toUser") \/ SendStep("broadcast")) =>
          \A c \in 1..Len(conn) : WritesNow(c) = IF c \in Targets THEN 1 ELSE 0]_vars
  /\ [][\A c \in Live(clients) \ Live(clients') :
          (/\ conn[c].sessionToken # NoTok
           /\ \E d \in Live(clients') \ Live(clients) :
                conn'[d].sessionToken = conn[c].sessionToken)
          => conn'[c].ended >= 1]_vars

C24_Witness ==
  /\ dbFailed /\ last.op = "hb" /\ last.solo /\ ~last.ok
  /\ \E c \in last.pinged : conn[c].lastPing = HEARTBEAT_MS /\ c \in Live(clients)
  /\ \E c \in 1..Len(conn) : conn[c].ended >= 1 /\ c \notin Live(clients)

Removed(i) ==
  /\ sessions[i].status = "offline" /\ MapGet(clients, i) = 0
  /\ \A t \in InFlight : ~(t.op = "add" /\ t.key = i)

\* C26: the status of a Session Record is online or offline, and the record of a
\* client that has been removed from the map and is not being added again does not
\* become online
C26_NoReturnToOnline ==
  [][\A i \in Ids :
       /\ sessions'[i] # NoRec => sessions'[i].status \in {"online", "offline"}
       /\ Removed(i) => sessions'[i].status = "offline"]_vars

\* the client objects with the subscriptions cache of each replaced by s
WithCaches(cn, s) == [c \in 1..Len(cn) |-> [cn[c] EXCEPT !.subscriptions = s]]

\* contents a subscriptions cache may have
CacheChoices == {<<>>, <<"e1">>, <<"e2", "e1">>}

\* C27: every sendEventToSubscribers call starts with a store read of the records
\* of its event name, which returns the records the table holds when the store
\* executes it; and the writes the call issues when it resumes are those the
\* returned records and the map determine, whatever the subscriptions caches hold
C27_RecipientsFromStore ==
  [][/\ \A u \in BagToSet(tasks') \ BagToSet(tasks) :
          u.op = "sendSubs" =>
            /\ u.q.k = "findSubs" /\ u.q.ev = u.a.ev
            /\ (u.pc = "ret" /\ u.ok) => u.rows = {r \in subsTable : r.eventName = u.a.ev}
     /\ \A t \in InFlight \ BagToSet(tasks') :
          (t.op = "sendSubs" /\ t.pc = "ret" /\ t.ok) =>
            \A s \in CacheChoices :
              sent' = sent \o Deliver(t.rows, clients, WithCaches(conn, s), t.a.env)]_vars

C27_Witness ==
  /\ last.op = "sendSubs" /\ last.ok
  /\ \E c, d \in Live(clients) :
       /\ conn[c].subscriptions = <<>> /\ WritesTo(c, last.a.env) >= 1
       /\ conn[d].subscriptions = <<"e1">> /\ WritesTo(d, last.a.env) = 0

\* the JSON text of the payloads that are sent
JsonText(v) ==
  CASE v = JsObject("msg", "hi") -> "{\"msg\":\"hi\"}"
    [] v = JsString("d") -> "\"d\""
    [] v = JsNumber(7) -> "7"
    [] v = JsNull -> "null"
    [] v = JsEmpty -> "{}"

\* C28: the content of every write is the line of the event name, the line of the
\* JSON text of the payload and an empty line, for the heartbeat's ping with
\* payload {} as for the envelopes of the senders; and each step of
\* sendEventToClient, sendEventToUser and broadcast issues one write to each of its
\* targets and none to another connection
C28_WireFormat ==
  /\ [](\A i \in 1..Len(sent) :
          sent[i].chunk = "event: " \o sent[i].env.event \o "\n"
                            \o "data: " \o JsonText(sent[i].env.data) \o "\n"
                            \o "\n")
  /\ [][(SendStep("toClient") \/ SendStep("toUser") \/ SendStep("broadcast")) =>
          /\ \A c \in 1..Len(conn) : WritesNow(c) = IF c \in Targets THEN 1 ELSE 0
          /\ \A i \in 1..Len(sent') : sent'[i].env = last'.a.env]_vars

C28_Witness ==
  /\ last.op = "sendSubs" /\ Len(sent) = 1 /\ sent[1].ok
  /\ conn[sent[1].c].id = "tokA" /\ conn[sent[1].c].sessionToken = "tokA"
  /\ sent[1].chunk = "event: demo-event\ndata: {\"msg\":\"hi\"}\n\n"

\* the places in the log of the writes on the stream of client object c
WritesOn(c) == {i \in 1..Len(sent) : sent[i].c = c}

\* C29: on the stream of every client the endpoint has made, the first chunk
\* written is ":ok", and every other chunk is a named event
C29_OkFirst ==
  \A c \in 1..Len(conn) :
    /\ WritesOn(c) # {}
    /\ \A i \in WritesOn(c) : sent[i].chunk = ":ok\n\n" <=> i = Min(WritesOn(c))

C29_Witness ==
  \E c \in 1..Len(conn) : \E i, j \in WritesOn(c) :
    /\ sent[i].env.event = "e1" /\ sent[j].env.event = "ping"
    /\ sent[Min(WritesOn(c))].chunk = ":ok\n\n"
    /\ conn[c].sessionToken = "tokA" /\ c = 2

\* the heartbeat tasks that a step has brought to the await of updateSessionPing
PingAwaits ==
  {u \in BagToSet(tasks') :
     u.op = "hb" /\ u.ph = "ping" /\ u.pc = "call" /\ CopiesIn(u, tasks') > CopiesIn(u, tasks)}

\* the heartbeat tasks that a step has resumed after a failed updateSessionPing
PingFailures ==
  {t \in BagToSet(tasks) :
     t.op = "hb" /\ t.ph = "ping" /\ t.pc = "ret" /\ ~t.ok /\ CopiesIn(t, tasks') < CopiesIn(t, tasks)}

\* C30: a heartbeat step that reaches the await of updateSessionPing has just
\* written a ping that did not throw to a client, set that client's lastPing to
\* the tick's time and issued the update (lastPing, status online) of the
\* records with the client's id; the failure of that update changes no Session
\* Record, and the step that resumes after it leaves every client the tick has
\* pinged where it was, in or out of the map, not ended once more and with its
\* lastPing; after a tick that no other operation overlapped every pinged
\* client is in the map with the tick's time as lastPing
C30_PingKeepsConnection ==
  /\ [][/\ \A u \in PingAwaits :
            LET w == sent'[Len(sent')]
            IN  /\ w.env = PingEnvelope /\ w.ok
                /\ w.c \in u.pinged /\ w.c \in Live(clients')
                /\ conn'[w.c].lastPing = u.t0
                /\ u.q.k = "pingSession" /\ u.q.id = conn'[w.c].id /\ u.q.at = now
                /\ SessionsAfter(sessions, u.q) =
                     [i \in Ids |-> IF sessions[i] # NoRec /\ i = u.q.id
                                    THEN [sessions[i] EXCEPT !.status = "online", !.lastPing = now]
                                    ELSE sessions[i]]
        /\ \A t \in PingFailures :
            \A c \in t.pinged :
                /\ c \in Live(clients) <=> c \in Live(clients')
                /\ conn'[c].lastPing = conn[c].lastPing
                /\ conn'[c].ended = conn[c].ended
        /\ \A t \in BagToSet(tasks') \ BagToSet(tasks) :
            (t.q.k = "pingSession" /\ t.pc = "ret" /\ ~t.ok) => sessions' = sessions]_vars
  /\ []((last.op = "hb" /\ last.solo) =>
          \A c \in last.pinged : c \in Live(clients) /\ conn[c].lastPing = last.t0)

C30_Witness ==
  /\ last.op = "hb" /\ last.solo /\ ~last.ok /\ last.failed = {}
  /\ Cardinality(last.pinged) = 2
  /\ \A c \in last.pinged :
       c \in Live(clients) /\ conn[c].lastPing = HEARTBEAT_MS /\ last.t0 = HEARTBEAT_MS
  /\ \E i \in Ids : sessions[i].status = "online" /\ sessions[i].lastPing = HEARTBEAT_MS
  /\ \E i \in Ids : sessions[i].status = "online" /\ sessions[i].lastPing < HEARTBEAT_MS

\* the step in which the store executes, with success, the call task t is
\* suspended at
Executed(t) ==
  LET u == [t EXCEPT !.pc = "ret", !.ok = TRUE, !.rows = RowsOf(subsTable, t.q)]
  IN  /\ t.pc = "call"
      /\ CopiesIn(t, tasks') < CopiesIn(t, tasks)
      /\ CopiesIn(u, tasks') > CopiesIn(u, tasks)

\* the time at which the session cleanup tick of task t read the clock
SweepTime(t) == t.q.at + STALE_MS

\* C31: the bulk update of a session cleanup tick sets to offline the Session
\* Records that are online and whose lastPing is more than 30000 ms older than
\* the time the tick read, and leaves every other record (online with a newer
\* lastPing, offline, absent) as it is
C31_SweepExact ==
  [][\A t \in InFlight :
       (t.op = "rp" /\ t.ph = "sweep" /\ Executed(t)) =>
         \A i \in Ids :
           sessions'[i] =
             IF sessions[i].status = "online" /\ SweepTime(t) - sessions[i].lastPing > STALE_MS
             THEN [sessions[i] EXCEPT !.status = "offline"]
             ELSE sessions[i]]_vars

C31_Witness ==
  \E t \in InFlight :
    /\ t.op = "rp" /\ t.ph = "sweep" /\ t.pc = "ret" /\ t.ok
    /\ \E i, j \in Ids :
         /\ sessions[i].status = "offline" /\ sessions[i].lastPing < t.q.at
         /\ MapGet(clients, i) # 0 /\ conn[MapGet(clients, i)].ended = 0
         /\ sessions[j].status = "online" /\ sessions[j].lastPing >= t.q.at

\* the calls of subscribe, unsubscribe and unsubscribeFromAllEvents that a step
\* resumes after their store call failed
FailedSubscriptionCalls ==
  {t \in InFlight :
     /\ t.op \in {"sub", "unsub", "unsubAll"} /\ t.pc = "ret" /\ ~t.ok
     /\ CopiesIn(t, tasks') < CopiesIn(t, tasks)}

\* C32: a subscribe, unsubscribe or unsubscribeFromAllEvents call whose store call
\* failed completes when it resumes, nothing is rejected, and neither the failure
\* nor the resumption changes a client object, the map or the store
C32_FailedCallKeepsCaches ==
  /\ [](rejected = {})
  /\ [][/\ \A t \in FailedSubscriptionCalls :
            /\ UNCHANGED <<conn, clients, subsTable, sessions, rejected>>
            /\ last'.op = t.op /\ last'.a = t.a /\ ~last'.ok
            /\ CopiesIn(t, tasks') = CopiesIn(t, tasks) - 1
            /\ BagCardinality(tasks') = BagCardinality(tasks) - 1
        /\ dbFailed' # dbFailed => UNCHANGED <<conn, clients, subsTable, sessions>>]_vars

C32_Witness ==
  /\ last.op = "unsubAll" /\ ~last.ok /\ Idle
  /\ \E c \in Live(clients) :
       conn[c].sessionToken = last.a.tok /\ conn[c].subscriptions = <<"e2", "e1">>
  /\ \E r \in subsTable : r.sessionToken = last.a.tok

\* client object c is the most recent one the endpoint has made for its id, also
\* after the step
Newest(c) == \A d \in (c + 1)..Len(conn') : conn'[d].id # conn[c].id

\* C33: a connection of the map that has not been closed and that no later
\* connection of the same id replaces stays in the map and is not closed, whatever
\* the closed callbacks of replaced streams do
C33_ReplacementSurvives ==
  [][\A c \in Live(clients) :
       (conn[c].ended = 0 /\ Newest(c)) => (c \in Live(clients') /\ conn'[c].ended = 0)]_vars

\* the removeClient calls that a step resumes after their store call
RemovalsResumed ==
  {t \in InFlight : t.op = "rm" /\ t.pc = "ret" /\ CopiesIn(t, tasks') < CopiesIn(t, tasks)}

\* C34: the step in which a removeClient call resumes takes out of the map no
\* client but the one the call had looked up
C34_RemovesOnlyLookedUp ==
  [][\A t \in RemovalsResumed :
       \A d \in Live(clients) : d # t.c => d \in Live(clients')]_vars

\* addClient has put client object c in the map
Inserted(c) == \A t \in InFlight : ~(t.op = "add" /\ t.c = c /\ t.ph = "evict")

\* C35: every client that was put in the map and is not in it has been closed
C35_DroppedIsClosed ==
  \A c \in 1..Len(conn) : (Inserted(c) /\ c \notin Live(clients)) => conn[c].ended >= 1

\* C36: no client is closed more than once
C36_ClosedOnce == \A c \in 1..Len(conn) : conn[c].ended <= 1

\* C37: whenever nothing is in flight and no store call has failed, the session
\* record of every client in the map is online
C37_LiveIsOnline ==
  (Idle /\ ~dbFailed) => \A c \in Live(clients) : sessions[conn[c].id].status = "online"

\* the store holds a session record of client id i and the map holds no client
\* under i
Dropped(i) == sessions[i] # NoRec /\ MapGet(clients, i) = 0

\* C38: while the session cleanup keeps ticking and the store answers, the record
\* of a client id that is out of the map becomes offline, and from some moment on
\* it is offline whenever the id is out of the map
C38_DroppedGoesOffline ==
  \A i \in Ids :
    /\ Dropped(i) ~> (sessions[i].status = "offline" \/ ~Dropped(i))
    /\ <>[](Dropped(i) => sessions[i].status = "offline")

\* nothing is in flight, and a record is online whose client id is out of the map:
\* only the session cleanup can set it offline
C38_Witness == Idle /\ \E i \in Ids : Dropped(i) /\ sessions[i].status = "online"

\* a step in which the session cleanup finds client object c stale and starts its
\* eviction
ReaperEvicts(c) ==
  \E u \in BagToSet(tasks') :
    /\ u.op = "rp" /\ u.ph = "off" /\ u.pc = "call"
    /\ CopiesIn(u, tasks') > CopiesIn(u, tasks)
    /\ u.it \in 1..Len(clients) /\ clients[u.it].val = c

\* C39: the session cleanup evicts no client whose stream takes every ping write
C39_HealthyNotReaped ==
  [][\A c \in 1..Len(conn) : ReaperEvicts(c) => conn[c].broken]_vars

\* C40: whenever nothing is in flight, every event name in the subscriptions cache
\* of a client in the map has a subscription record of the client's session
C40_CacheWithinStore ==
  Idle =>
    \A c \in Live(clients) :
      \A e \in Range(conn[c].subscriptions) :
        \E r \in subsTable : r.sessionToken = conn[c].sessionToken /\ r.eventName = e

====
